---- MODULE Spec2Model ----
(***************************************************************************)
(* Model of the cfgate DNS sync reconciler (CloudflareDNSSync controller)  *)
(* and of the DNSService it drives.                                        *)
(*                                                                         *)
(* Strings are modelled as sequences of tokens so that strings.Contains,   *)
(* strings.HasPrefix and fmt.Sprintf are computed, not assumed.  Hostnames *)
(* and record names are sequences of DNS labels.                           *)
(***************************************************************************)
EXTENDS Integers, Sequences, FiniteSets, TLC

VARIABLES
    records,    \* external DNS records held by Cloudflare, in list order
    nextID,     \* next external record id Cloudflare hands out
    sync,       \* the CloudflareDNSSync object stored in the cluster
    tunnel,     \* the referenced CloudflareTunnel: "missing", "notready", "ready"
    secrets,    \* state of the tunnel credential secret and the fallback secret
    routes,     \* hostnames declared by HTTPRoutes attached to the tunnel's gateway
    last,       \* what the last step did (API calls, events, result)
    budget,     \* what the environment may still do: foreign writes, faults, hostnames
    apc,        \* the access policy, the objects it may target and its AccessPolicyContext
    hr,         \* an HTTPRoute, the Gateway it may attach to and its status
    cc,         \* the CredentialCache, the clock, the secret and the callers' progress
    ct,         \* a CloudflareTunnel object and the external tunnels of the account
    tc,         \* a TunnelConfig under construction
    us,         \* a status in the cluster, the reconciler's copy of it, the clock
    peer,       \* a second CloudflareDNSSync bound to the same tunnel, and its routes
    gw          \* the Gateways and HTTPRoutes of the cluster and the hostnames collected

\* the state of the DNS sync reconciler and the state of the other components
dnsVars == <<records, nextID, sync, tunnel, secrets, routes, last, budget>>
others == <<apc, hr, cc, ct, tc, us, peer, gw>>
notPeer == <<apc, hr, cc, ct, tc, us, gw>>

vars == <<dnsVars, others>>

-----------------------------------------------------------------------------
(* Bounds *)

MaxRecordID == 4
MaxDrift == 1
MaxFaults == 1
MaxEdits == 1

(* Program constants *)

AutoTTL == 1

-----------------------------------------------------------------------------
(* Strings as token sequences *)

\* strings.Contains
Contains(s, sub) ==
    \E i \in 0..(Len(s) - Len(sub)) : SubSeq(s, i + 1, i + Len(sub)) = sub

\* strings.HasPrefix(name, prefix + ".") on label sequences
HasLabelPrefix(name, prefix) ==
    /\ Len(name) > Len(prefix)
    /\ SubSeq(name, 1, Len(prefix)) = prefix

Marker == <<"managed by cfgate">>

\* fmt.Sprintf("tunnel=%s", tunnelName)
TunnelTag(tunnelName) == <<"tunnel=">> \o tunnelName

\* fmt.Sprintf("managed by cfgate, tunnel=%s", tunnelName)
ManagedComment(tunnelName) == Marker \o <<", ">> \o TunnelTag(tunnelName)

defaultOwnershipPrefix == <<"_cfgate">>

dnsSyncFinalizer == "cfgate.io/dns-cleanup"

-----------------------------------------------------------------------------
(* The fixed world the reconciler runs in *)

TunnelName == <<"t1">>
TunnelDomain == <<"tid.cfargotunnel.com">>

HostA == <<"a", "ex", "com">>
HostB == <<"b", "ex", "com">>
\* a hostname under a multi-label public suffix
HostUK == <<"app", "example", "co", "uk">>

\* the order in which the cluster lists the routes
HostOrder == <<HostA, HostB, HostUK>>

\* zones known to the Cloudflare account: name -> id
ZoneName == <<"ex", "com">>
ZoneID == "z1"
ZoneUK == <<"example", "co", "uk">>
ZoneUKID == "z2"
GetZoneByName(zoneName) ==
    IF zoneName = ZoneName THEN ZoneID
    ELSE IF zoneName = ZoneUK THEN ZoneUKID
    ELSE ""

\* content and comment of records made by somebody else
ForeignContent == <<"origin.corp">>
ForeignComment == <<>>
ForeignTTL == 300

APIOps == {"list", "create", "update", "delete", "zone"}

\* what can be down during one reconciliation: nothing, or one API operation
FailModes == {{}} \cup {{op} : op \in APIOps}

NoRecord == [id |-> 0, zone |-> "", name |-> <<>>, type |-> "", content |-> <<>>,
             proxied |-> FALSE, ttl |-> 0, comment |-> <<>>]

-----------------------------------------------------------------------------
(* internal/cloudflare/dns.go: pure helpers *)

ExtractZoneFromHostname(hostname) ==
    IF Len(hostname) < 2 THEN hostname
    ELSE SubSeq(hostname, Len(hostname) - 1, Len(hostname))

BuildCNAMERecord(hostname, tunnelDomain, proxied, comment) ==
    [id |-> 0, zone |-> "", name |-> hostname, type |-> "CNAME",
     content |-> tunnelDomain, proxied |-> proxied, ttl |-> AutoTTL,
     comment |-> comment]

BuildOwnershipTXTRecord(hostname, tunnelName, prefix) ==
    [id |-> 0, zone |-> "", name |-> prefix \o hostname, type |-> "TXT",
     content |-> ManagedComment(tunnelName), proxied |-> FALSE, ttl |-> AutoTTL,
     comment |-> <<"cfgate ownership record">>]

\* faulty variant: only the full comment written by the operator counts
IsOwnedByCfgate_FullComment(record, ownershipPrefix, tunnelName) ==
    /\ Contains(record.comment, Marker)
    /\ \E i \in 1..Len(record.comment) :
          SubSeq(record.comment, i, i) = <<"tunnel=">>

IsOwnedByCfgate(record, ownershipPrefix, tunnelName) ==
    IF Contains(record.comment, Marker)
    THEN IF tunnelName = <<>> THEN TRUE
         ELSE Contains(record.comment, TunnelTag(tunnelName))
    ELSE FALSE

\* faulty variant: the whole struct is compared, the external id included
recordsMatch_WithID(a, b) ==
    /\ a.id = b.id
    /\ a.content = b.content
    /\ a.proxied = b.proxied
    /\ a.ttl = b.ttl
    /\ a.comment = b.comment

\* faulty variant: only the content is compared
recordsMatch_ContentOnly(a, b) ==
    a.content = b.content

recordsMatch(a, b) ==
    /\ a.content = b.content
    /\ a.proxied = b.proxied
    /\ a.ttl = b.ttl
    /\ a.comment = b.comment

-----------------------------------------------------------------------------
(* The Cloudflare client.  An api value is the external state threaded      *)
(* through one reconciliation: recs (the records), next (the id counter),   *)
(* log (the write calls issued so far) and errs (some call returned an      *)
(* error).  fail is the set of API operations that return an error during   *)
(* this reconciliation.                                                     *)

Failed(api) == [api EXCEPT !.errs = TRUE]

IndexOfID(recs, id) ==
    IF \E i \in 1..Len(recs) : recs[i].id = id
    THEN CHOOSE i \in 1..Len(recs) : recs[i].id = id
    ELSE 0

RemoveAt(s, i) == SubSeq(s, 1, i - 1) \o SubSeq(s, i + 1, Len(s))

ListDNSRecords(api, zoneID) ==
    SelectSeq(api.recs, LAMBDA r : r.zone = zoneID)

CreateDNSRecord(api, zoneID, rec, fail) ==
    LET new == [rec EXCEPT !.id = api.next, !.zone = zoneID]
        entry == [op |-> "create", id |-> api.next, name |-> rec.name,
                  type |-> rec.type, found |-> TRUE, comment |-> rec.comment]
    IN  IF "create" \in fail
        THEN [api |-> Failed([api EXCEPT !.log = Append(@, [entry EXCEPT !.id = 0])]),
              rec |-> NoRecord, err |-> TRUE]
        ELSE [api |-> [api EXCEPT !.recs = Append(@, new), !.next = @ + 1,
                                  !.log = Append(@, entry)],
              rec |-> new, err |-> FALSE]

UpdateDNSRecord(api, zoneID, id, rec, fail) ==
    LET i == IndexOfID(api.recs, id)
        old == IF i = 0 THEN NoRecord ELSE api.recs[i]
        new == [rec EXCEPT !.id = id, !.zone = zoneID]
        entry == [op |-> "update", id |-> id, name |-> old.name,
                  type |-> old.type, found |-> i # 0, comment |-> old.comment]
        logged == [api EXCEPT !.log = Append(@, entry)]
    IN  IF "update" \in fail \/ i = 0
        THEN [api |-> Failed(logged), rec |-> NoRecord, err |-> TRUE]
        ELSE [api |-> [logged EXCEPT !.recs[i] = new], rec |-> new, err |-> FALSE]

DeleteDNSRecord(api, zoneID, id, fail) ==
    LET i == IndexOfID(api.recs, id)
        old == IF i = 0 THEN NoRecord ELSE api.recs[i]
        entry == [op |-> "delete", id |-> id, name |-> old.name,
                  type |-> old.type, found |-> i # 0, comment |-> old.comment]
        logged == [api EXCEPT !.log = Append(@, entry)]
    IN  IF "delete" \in fail \/ i = 0
        THEN [api |-> Failed(logged), err |-> TRUE]
        ELSE [api |-> [logged EXCEPT !.recs = RemoveAt(@, i)], err |-> FALSE]

-----------------------------------------------------------------------------
(* internal/cloudflare/dns.go: DNSService *)

FindRecordByName(api, zoneID, name, recordType, fail) ==
    LET listed == ListDNSRecords(api, zoneID)
        hits == SelectSeq(listed, LAMBDA r : r.name = name /\ r.type = recordType)
    IN  IF "list" \in fail THEN [rec |-> NoRecord, found |-> FALSE, err |-> TRUE]
        ELSE IF Len(hits) = 0 THEN [rec |-> NoRecord, found |-> FALSE, err |-> FALSE]
        ELSE [rec |-> hits[1], found |-> TRUE, err |-> FALSE]

\* faulty variant: the ownership check before the update is missing
SyncRecord_NoOwnershipCheck(api, zoneID, desired, fail) ==
    LET existing == FindRecordByName(api, zoneID, desired.name, desired.type, fail)
        created == CreateDNSRecord(api, zoneID, desired, fail)
        updated == UpdateDNSRecord(api, zoneID, existing.rec.id, desired, fail)
    IN  IF existing.err
        THEN [api |-> Failed(api), rec |-> NoRecord, modified |-> FALSE, err |-> TRUE]
        ELSE IF ~existing.found
        THEN [api |-> created.api, rec |-> created.rec,
              modified |-> ~created.err, err |-> created.err]
        ELSE IF recordsMatch(existing.rec, desired)
        THEN [api |-> api, rec |-> existing.rec, modified |-> FALSE, err |-> FALSE]
        ELSE [api |-> updated.api, rec |-> updated.rec,
              modified |-> ~updated.err, err |-> updated.err]

\* faulty variant: the record is created without looking for an existing one
SyncRecord_CreateAlways(api, zoneID, desired, fail) ==
    LET created == CreateDNSRecord(api, zoneID, desired, fail)
    IN  [api |-> created.api, rec |-> created.rec,
         modified |-> ~created.err, err |-> created.err]

SyncRecord(api, zoneID, desired, fail) ==
    LET existing == FindRecordByName(api, zoneID, desired.name, desired.type, fail)
        created == CreateDNSRecord(api, zoneID, desired, fail)
        updated == UpdateDNSRecord(api, zoneID, existing.rec.id, desired, fail)
    IN  IF existing.err
        THEN [api |-> Failed(api), rec |-> NoRecord, modified |-> FALSE, err |-> TRUE]
        ELSE IF ~existing.found
        THEN [api |-> created.api, rec |-> created.rec,
              modified |-> ~created.err, err |-> created.err]
        ELSE IF ~IsOwnedByCfgate(existing.rec, <<>>, <<>>)
        THEN [api |-> api, rec |-> existing.rec, modified |-> FALSE, err |-> FALSE]
        ELSE IF recordsMatch(existing.rec, desired)
        THEN [api |-> api, rec |-> existing.rec, modified |-> FALSE, err |-> FALSE]
        ELSE [api |-> updated.api, rec |-> updated.rec,
              modified |-> ~updated.err, err |-> updated.err]

DeleteRecord(api, zoneID, recordID, fail) ==
    DeleteDNSRecord(api, zoneID, recordID, fail)

ListManagedRecords(api, zoneID, ownershipPrefix, fail) ==
    LET listed == ListDNSRecords(api, zoneID)
        managed == SelectSeq(listed, LAMBDA r :
                       \/ Contains(r.comment, Marker)
                       \/ (r.type = "TXT" /\ HasLabelPrefix(r.name, ownershipPrefix)))
    IN  IF "list" \in fail THEN [recs |-> <<>>, err |-> TRUE]
        ELSE [recs |-> managed, err |-> FALSE]

CreateOwnershipRecord(api, zoneID, hostname, tunnelName, prefix, fail) ==
    LET record == BuildOwnershipTXTRecord(hostname, tunnelName, prefix)
        existing == FindRecordByName(api, zoneID, record.name, record.type, fail)
        updated == UpdateDNSRecord(api, zoneID, existing.rec.id, record, fail)
        created == CreateDNSRecord(api, zoneID, record, fail)
    IN  IF existing.err THEN [api |-> Failed(api), err |-> TRUE]
        ELSE IF existing.found
        THEN IF existing.rec.content = record.content
                /\ existing.rec.comment = record.comment
             THEN [api |-> api, err |-> FALSE]
             ELSE [api |-> updated.api, err |-> updated.err]
        ELSE [api |-> created.api, err |-> created.err]

DeleteOwnershipRecord(api, zoneID, hostname, prefix, fail) ==
    LET txtName == prefix \o hostname
        record == FindRecordByName(api, zoneID, txtName, "TXT", fail)
    IN  IF record.err THEN [api |-> Failed(api), err |-> TRUE]
        ELSE IF ~record.found THEN [api |-> api, err |-> FALSE]
        ELSE DeleteRecord(api, zoneID, record.rec.id, fail)

ResolveZone(zoneName, fail) ==
    IF "zone" \in fail THEN [id |-> "", err |-> TRUE]
    ELSE [id |-> GetZoneByName(zoneName), err |-> FALSE]

-----------------------------------------------------------------------------
(* The CloudflareDNSSync object *)

EmptyStatus ==
    [Records |-> <<>>, SyncedRecords |-> 0, PendingRecords |-> 0,
     FailedRecords |-> 0, ObservedGeneration |-> 0, Conditions |-> <<>>]

ConditionTypeReady == "Ready"
ConditionTypeZonesResolved == "ZonesResolved"
ConditionTypeDNSSynced == "DNSSynced"

\* meta.SetStatusCondition: replace the condition of that type, else append
setCondition(status, conditionType, condStatus, reason, message) ==
    LET c == [Type |-> conditionType, Status |-> condStatus,
              Reason |-> reason, Message |-> message]
        cs == status.Conditions
    IN  IF \E i \in 1..Len(cs) : cs[i].Type = conditionType
        THEN [status EXCEPT !.Conditions =
                 [i \in 1..Len(cs) |-> IF cs[i].Type = conditionType THEN c ELSE cs[i]]]
        ELSE [status EXCEPT !.Conditions = Append(cs, c)]

\* faulty variant: lastSyncTime is compared as well
statusEqual_WithTime(a, b) ==
    /\ a.LastSyncTime = b.LastSyncTime
    /\ a.ObservedGeneration = b.ObservedGeneration
    /\ a.SyncedRecords = b.SyncedRecords
    /\ a.PendingRecords = b.PendingRecords
    /\ a.FailedRecords = b.FailedRecords
    /\ Len(a.Conditions) = Len(b.Conditions)
    /\ \A i \in 1..Len(a.Conditions) :
          /\ a.Conditions[i].Type = b.Conditions[i].Type
          /\ a.Conditions[i].Status = b.Conditions[i].Status
          /\ a.Conditions[i].Reason = b.Conditions[i].Reason
          /\ a.Conditions[i].Message = b.Conditions[i].Message
    /\ a.Records = b.Records

statusEqual(a, b) ==
    /\ a.ObservedGeneration = b.ObservedGeneration
    /\ a.SyncedRecords = b.SyncedRecords
    /\ a.PendingRecords = b.PendingRecords
    /\ a.FailedRecords = b.FailedRecords
    /\ Len(a.Conditions) = Len(b.Conditions)
    /\ \A i \in 1..Len(a.Conditions) :
          /\ a.Conditions[i].Type = b.Conditions[i].Type
          /\ a.Conditions[i].Status = b.Conditions[i].Status
          /\ a.Conditions[i].Reason = b.Conditions[i].Reason
          /\ a.Conditions[i].Message = b.Conditions[i].Message
    /\ a.Records = b.Records

\* the status stored in the cluster after updateStatus(newStatus), and
\* whether Status().Update was called
updateStatus(stored, newStatus, clusterOk) ==
    IF statusEqual(stored, newStatus)
    THEN [status |-> stored, update |-> FALSE, err |-> FALSE]
    ELSE IF clusterOk THEN [status |-> newStatus, update |-> TRUE, err |-> FALSE]
    ELSE [status |-> stored, update |-> TRUE, err |-> TRUE]

-----------------------------------------------------------------------------
(* Hostname collection and credentials *)

RECURSIVE Dedup(_, _)
Dedup(hostnames, seen) ==
    IF hostnames = <<>> THEN <<>>
    ELSE IF Head(hostnames) \in seen THEN Dedup(Tail(hostnames), seen)
    ELSE <<Head(hostnames)>> \o Dedup(Tail(hostnames), seen \cup {Head(hostnames)})

collectHostnamesFromRoutes(routeHosts) ==
    SelectSeq(HostOrder, LAMBDA h : h \in routeHosts)

collectHostnames(spec, routeHosts) ==
    Dedup([i \in 1..Len(spec.explicit) |-> spec.explicit[i].Hostname]
          \o (IF spec.gatewayRoutes THEN collectHostnamesFromRoutes(routeHosts)
              ELSE <<>>),
          {})

\* the client built from a secret: which credentials it carries, or an error
createClientFromSecret(secretState, which) ==
    IF secretState = "ok" THEN [client |-> which, err |-> FALSE]
    ELSE [client |-> "none", err |-> TRUE]

getCloudflareClient(sec) ==
    IF sec.tunnel = "missing" THEN [client |-> "none", err |-> TRUE]
    ELSE createClientFromSecret(sec.tunnel, "tunnel")

\* faulty variant: the fallback reference is never consulted
getCloudflareClientWithFallback_NoFallback(spec, tun, sec) ==
    IF tun # "missing" /\ ~getCloudflareClient(sec).err
    THEN getCloudflareClient(sec)
    ELSE [client |-> "none", err |-> TRUE]

\* faulty variant: the failed tunnel lookup is ignored and the tunnel's secret is read anyway
getCloudflareClientWithFallback_IgnoreTunnel(spec, tun, sec) ==
    IF ~getCloudflareClient(sec).err
    THEN getCloudflareClient(sec)
    ELSE IF ~spec.fallbackRef THEN [client |-> "none", err |-> TRUE]
    ELSE IF sec.fallback = "missing" THEN [client |-> "none", err |-> TRUE]
    ELSE createClientFromSecret(sec.fallback, "fallback")

getCloudflareClientWithFallback(spec, tun, sec) ==
    IF tun # "missing" /\ ~getCloudflareClient(sec).err
    THEN getCloudflareClient(sec)
    ELSE IF ~spec.fallbackRef THEN [client |-> "none", err |-> TRUE]
    ELSE IF sec.fallback = "missing" THEN [client |-> "none", err |-> TRUE]
    ELSE createClientFromSecret(sec.fallback, "fallback")

\* faulty variant: a zone whose lookup fails is skipped, the others are used
resolveZones_SkipFailed(spec, sec, fail) ==
    LET cfg == spec.zones
        lookup(z) == IF z.ID # "" THEN [id |-> z.ID, err |-> FALSE]
                     ELSE ResolveZone(z.Name, fail)
        good == {i \in 1..Len(cfg) : ~lookup(cfg[i]).err /\ lookup(cfg[i]).id # ""}
    IN  IF getCloudflareClient(sec).err
        THEN [zones |-> <<>>, err |-> TRUE, apiErr |-> FALSE]
        ELSE [zones |-> [n \in {cfg[i].Name : i \in good} |->
                            LET i == CHOOSE j \in good : cfg[j].Name = n
                            IN  lookup(cfg[i]).id],
              err |-> FALSE, apiErr |-> FALSE]

\* zone name -> zone id for every configured zone, or an error
resolveZones(spec, sec, fail) ==
    LET cfg == spec.zones
        lookup(z) == IF z.ID # "" THEN [id |-> z.ID, err |-> FALSE]
                     ELSE ResolveZone(z.Name, fail)
        bad == \E i \in 1..Len(cfg) : lookup(cfg[i]).err \/ lookup(cfg[i]).id = ""
        called == \E i \in 1..Len(cfg) : cfg[i].ID = ""
    IN  IF getCloudflareClient(sec).err
        THEN [zones |-> <<>>, err |-> TRUE, apiErr |-> FALSE]
        ELSE IF bad
        THEN [zones |-> <<>>, err |-> TRUE, apiErr |-> TRUE]
        ELSE [zones |-> [n \in {cfg[i].Name : i \in 1..Len(cfg)} |->
                            LET i == CHOOSE j \in 1..Len(cfg) :
                                         /\ cfg[j].Name = n
                                         /\ \A k \in (j + 1)..Len(cfg) : cfg[k].Name # n
                            IN  lookup(cfg[i]).id],
              err |-> FALSE, apiErr |-> FALSE]

-----------------------------------------------------------------------------
(* syncRecords *)

ownershipPrefixOf(spec) ==
    IF spec.prefix = <<>> THEN defaultOwnershipPrefix ELSE spec.prefix

\* faulty variant: a failed hostname is reported as pending
FailedEntry_AsPending(hostname, error) ==
    [Hostname |-> hostname, Type |-> "CNAME", Target |-> <<>>, Proxied |-> FALSE,
     Status |-> "Pending", RecordID |-> 0, Error |-> error]

FailedEntry(hostname, error) ==
    [Hostname |-> hostname, Type |-> "CNAME", Target |-> <<>>, Proxied |-> FALSE,
     Status |-> "Failed", RecordID |-> 0, Error |-> error]

SyncedEntry(hostname, record) ==
    [Hostname |-> hostname, Type |-> record.type, Target |-> record.content,
     Proxied |-> record.proxied, Status |-> "Synced", RecordID |-> record.id,
     Error |-> ""]

\* the per-hostname loop; acc is [api, statuses, synced, failed, events]
RECURSIVE syncHostnames(_, _, _, _, _)
syncHostnames(acc, spec, hostnames, zones, fail) ==
    IF hostnames = <<>> THEN acc
    ELSE
    LET hostname == Head(hostnames)
        zoneName == ExtractZoneFromHostname(hostname)
        ok == zoneName \in DOMAIN zones
        zoneID == zones[zoneName]
        comment == ManagedComment(TunnelName)
        desired == BuildCNAMERecord(hostname, TunnelDomain, spec.proxied, comment)
        afterTXT(synced) ==
            IF spec.txtEnabled
            THEN CreateOwnershipRecord(synced.api, zoneID, hostname, TunnelName,
                                       ownershipPrefixOf(spec), fail).api
            ELSE synced.api
        record(synced) ==
            IF synced.err
            THEN [acc EXCEPT !.api = synced.api,
                             !.statuses = Append(@, FailedEntry(hostname, "sync failed")),
                             !.failed = @ + 1]
            ELSE [acc EXCEPT !.api = afterTXT(synced),
                             !.statuses = Append(@, SyncedEntry(hostname, synced.rec)),
                             !.synced = @ + 1,
                             !.events = IF synced.modified
                                        THEN @ \cup {"RecordSynced"} ELSE @]
        next == IF ~ok
                THEN [acc EXCEPT !.statuses = Append(@, FailedEntry(hostname, "zone not configured")),
                                 !.failed = @ + 1]
                ELSE record(SyncRecord(acc.api, zoneID, desired, fail))
    IN  syncHostnames(next, spec, Tail(hostnames), zones, fail)

\* faulty variant: the sweep goes over the zone instead of the previous status
deleteOrphans_SweepZone(acc, spec, prev, hostnames, zones, fail) ==
    LET stale == SelectSeq(acc.api.recs, LAMBDA r :
                     /\ IsOwnedByCfgate(r, <<>>, <<>>)
                     /\ ~\E i \in 1..Len(hostnames) : hostnames[i] = r.name)
    IN  IF stale = <<>> THEN acc
        ELSE [acc EXCEPT !.api = DeleteRecord(acc.api, stale[1].zone, stale[1].id,
                                              fail).api,
                         !.events = @ \cup {"RecordDeleted"}]

\* the orphan loop over the previous status; acc is [api, events]
RECURSIVE deleteOrphans(_, _, _, _, _, _)
deleteOrphans(acc, spec, prev, hostnames, zones, fail) ==
    IF prev = <<>> THEN acc
    ELSE
    LET prevRecord == Head(prev)
        found == \E i \in 1..Len(hostnames) : hostnames[i] = prevRecord.Hostname
        zoneName == ExtractZoneFromHostname(prevRecord.Hostname)
        ok == zoneName \in DOMAIN zones
        zoneID == zones[zoneName]
        afterTXT(deleted) ==
            IF spec.txtEnabled
            THEN DeleteOwnershipRecord(deleted.api, zoneID, prevRecord.Hostname,
                                       ownershipPrefixOf(spec), fail).api
            ELSE deleted.api
        remove(deleted) ==
            [acc EXCEPT !.api = afterTXT(deleted),
                        !.events = IF deleted.err THEN @
                                   ELSE @ \cup {"RecordDeleted"}]
        check(existing) ==
            IF existing.err THEN [acc EXCEPT !.api = Failed(@)]
            ELSE IF existing.found /\ IsOwnedByCfgate(existing.rec, <<>>, <<>>)
            THEN remove(DeleteRecord(acc.api, zoneID, prevRecord.RecordID, fail))
            ELSE acc
        next == IF ~found /\ prevRecord.RecordID # 0 /\ ok
                THEN check(FindRecordByName(acc.api, zoneID, prevRecord.Hostname,
                                            prevRecord.Type, fail))
                ELSE acc
    IN  deleteOrphans(next, spec, Tail(prev), hostnames, zones, fail)

\* returns the api after the pass, the status it leaves in memory, the events
syncRecords(api, spec, status, sec, hostnames, zones, fail) ==
    LET result(looped, swept) ==
            [api |-> swept.api,
             status |-> [status EXCEPT !.Records = looped.statuses,
                                       !.SyncedRecords = looped.synced,
                                       !.PendingRecords = 0,
                                       !.FailedRecords = looped.failed],
             events |-> swept.events, err |-> FALSE]
        sweep(looped) ==
            result(looped,
                   deleteOrphans([api |-> looped.api, events |-> looped.events],
                                 spec, status.Records, hostnames, zones, fail))
    IN  IF getCloudflareClient(sec).err
        THEN [api |-> api, status |-> status, events |-> {}, err |-> TRUE]
        ELSE sweep(syncHostnames([api |-> api, statuses |-> <<>>, synced |-> 0,
                                  failed |-> 0, events |-> {}],
                                 spec, hostnames, zones, fail))

-----------------------------------------------------------------------------
(* Deletion: cleanupRecordsWithFallback and reconcileDelete *)

RECURSIVE cleanupList(_, _, _, _, _, _)
cleanupList(api, spec, zoneID, recs, tunnelName, fail) ==
    IF recs = <<>> THEN api
    ELSE
    LET record == Head(recs)
        next == IF IsOwnedByCfgate(record, <<>>, tunnelName) \/ ~spec.onlyManaged
                THEN DeleteRecord(api, zoneID, record.id, fail).api
                ELSE api
    IN  cleanupList(next, spec, zoneID, Tail(recs), tunnelName, fail)

RECURSIVE cleanupZones(_, _, _, _, _)
cleanupZones(api, spec, cfg, tunnelName, fail) ==
    IF cfg = <<>> THEN api
    ELSE
    LET zoneConfig == Head(cfg)
        zone == IF zoneConfig.ID # "" THEN [id |-> zoneConfig.ID, err |-> FALSE]
                ELSE ResolveZone(zoneConfig.Name, fail)
        managed == ListManagedRecords(api, zone.id, ownershipPrefixOf(spec), fail)
        next == IF zone.err \/ zone.id = "" THEN Failed(api)
                ELSE IF managed.err THEN Failed(api)
                ELSE cleanupList(api, spec, zone.id, managed.recs, tunnelName, fail)
    IN  cleanupZones(next, spec, Tail(cfg), tunnelName, fail)

cleanupRecordsWithFallback(api, spec, tun, sec, fail) ==
    LET cf == getCloudflareClientWithFallback(spec, tun, sec)
        tunnelName == IF tun # "missing" THEN TunnelName ELSE <<>>
    IN  IF cf.err THEN [api |-> api, client |-> "none", err |-> TRUE]
        ELSE [api |-> cleanupZones(api, spec, spec.zones, tunnelName, fail),
              client |-> cf.client, err |-> FALSE]

\* faulty variant: a completed sync returns an empty result
Outcome_NoResync(s, api, kind, result, events, client, cleanup, clusterErr) ==
    [sync |-> s, api |-> api,
     last |-> [kind |-> kind,
               result |-> IF kind = "synced" THEN "done" ELSE result,
               log |-> api.log, events |-> events,
               client |-> client, cleanup |-> cleanup, apiErr |-> api.errs,
               clusterErr |-> clusterErr]]

\* what one reconciliation leaves behind: the stored object, the external
\* state, and the record of the pass (clusterErr: a cluster write failed)
Outcome(s, api, kind, result, events, client, cleanup, clusterErr) ==
    [sync |-> s, api |-> api,
     last |-> [kind |-> kind, result |-> result, log |-> api.log, events |-> events,
               client |-> client, cleanup |-> cleanup, apiErr |-> api.errs,
               clusterErr |-> clusterErr]]

\* the object after the finalizer patch: a deleted object without finalizers is gone
RemoveFinalizer(s) ==
    [s EXCEPT !.finalizer = FALSE, !.exists = FALSE, !.status = EmptyStatus]

\* faulty variant: a cleanup error is swallowed without the warning event
reconcileDelete_NoEvent(s, api, tun, sec, fail, clusterOk) ==
    LET cleaned == cleanupRecordsWithFallback(api, s.spec, tun, sec, fail)
        run == s.spec.deleteOnResourceRemoval
        api1 == IF run THEN cleaned.api ELSE api
        client == IF run THEN cleaned.client ELSE "none"
        cleanup == IF ~run THEN "skipped" ELSE IF cleaned.err THEN "failed" ELSE "ok"
    IN  IF ~s.finalizer
        THEN Outcome(s, api, "delete", "done", {}, "none", "none", FALSE)
        ELSE IF clusterOk
        THEN Outcome(RemoveFinalizer(s), api1, "delete", "done", {}, client,
                     cleanup, FALSE)
        ELSE Outcome(s, api1, "delete", "error", {}, client, cleanup, TRUE)

\* faulty variant: a cleanup error is returned, the finalizer stays
reconcileDelete_BlockOnError(s, api, tun, sec, fail, clusterOk) ==
    LET cleaned == cleanupRecordsWithFallback(api, s.spec, tun, sec, fail)
        run == s.spec.deleteOnResourceRemoval
        api1 == IF run THEN cleaned.api ELSE api
        events == IF run /\ cleaned.err THEN {"DNSCleanupFailed"} ELSE {}
        client == IF run THEN cleaned.client ELSE "none"
        cleanup == IF ~run THEN "skipped" ELSE IF cleaned.err THEN "failed" ELSE "ok"
    IN  IF ~s.finalizer
        THEN Outcome(s, api, "delete", "done", {}, "none", "none", FALSE)
        ELSE IF run /\ cleaned.err
        THEN Outcome(s, api1, "delete", "error", events, client, cleanup, FALSE)
        ELSE IF clusterOk
        THEN Outcome(RemoveFinalizer(s), api1, "delete", "done", events, client,
                     cleanup, FALSE)
        ELSE Outcome(s, api1, "delete", "error", events, client, cleanup, TRUE)

reconcileDelete(s, api, tun, sec, fail, clusterOk) ==
    LET cleaned == cleanupRecordsWithFallback(api, s.spec, tun, sec, fail)
        run == s.spec.deleteOnResourceRemoval
        api1 == IF run THEN cleaned.api ELSE api
        events == IF run /\ cleaned.err THEN {"DNSCleanupFailed"} ELSE {}
        client == IF run THEN cleaned.client ELSE "none"
        cleanup == IF ~run THEN "skipped" ELSE IF cleaned.err THEN "failed" ELSE "ok"
    IN  IF ~s.finalizer
        THEN Outcome(s, api, "delete", "done", {}, "none", "none", FALSE)
        ELSE IF clusterOk
        THEN Outcome(RemoveFinalizer(s), api1, "delete", "done", events, client,
                     cleanup, FALSE)
        ELSE Outcome(s, api1, "delete", "error", events, client, cleanup, TRUE)

-----------------------------------------------------------------------------
(* Reconcile *)

\* steps 3-7 of Reconcile: the object exists, is not being deleted, has the finalizer
reconcileSync(s, api, tun, sec, routeHosts, fail, clusterOk) ==
    LET noTunnel == setCondition(s.status, ConditionTypeReady, "False",
                                 "TunnelNotFound", "failed to get tunnel")
        notReady == setCondition(s.status, ConditionTypeReady, "False",
                                 "TunnelNotReady", "Referenced tunnel is not ready")
        hostnames == collectHostnames(s.spec, routeHosts)
        zonesOk == setCondition(s.status, ConditionTypeZonesResolved, "True",
                                "ZonesResolved", "All zones resolved successfully")
        syncBad == setCondition(zonesOk, ConditionTypeDNSSynced, "False",
                                "SyncFailed", "failed to create Cloudflare client")
        stored(new) == [s EXCEPT !.status = updateStatus(s.status, new, clusterOk).status]
        werr(new) == updateStatus(s.status, new, clusterOk).err
        \* steps 6-7, given what syncRecords returned and the status to store
        finish(sr, ready) ==
            IF sr.err
            THEN Outcome(stored(syncBad), api, "syncfailed", "requeueAfter",
                         {"SyncFailed"}, "none", "none", werr(syncBad))
            ELSE IF werr(ready)
            THEN Outcome(s, sr.api, "statusfailed", "requeueAfter", sr.events,
                         "tunnel", "none", TRUE)
            ELSE Outcome(stored(ready), sr.api, "synced", "requeueAfter",
                         sr.events \cup {"Reconciled"}, "tunnel", "none", FALSE)
        readyStatus(sr) ==
            [setCondition(setCondition(sr.status, ConditionTypeDNSSynced, "True",
                                       "RecordsSynced", "DNS records synced successfully"),
                          ConditionTypeReady, "True", "Ready", "DNS sync is operational")
             EXCEPT !.ObservedGeneration = s.generation]
        afterSync(sr) == finish(sr, readyStatus(sr))
        \* steps 5-7, given what resolveZones returned
        afterZones(rz, zonesBad) ==
            IF rz.err
            THEN Outcome(stored(zonesBad), IF rz.apiErr THEN Failed(api) ELSE api,
                         "zonesfailed", "requeueAfter", {}, "none", "none", werr(zonesBad))
            ELSE afterSync(syncRecords(api, s.spec, zonesOk, sec, hostnames, rz.zones, fail))
        zonesFailed(rz) ==
            setCondition(s.status, ConditionTypeZonesResolved, "False",
                         "ZoneResolutionFailed",
                         IF rz.apiErr THEN "failed to resolve zone"
                         ELSE "failed to create Cloudflare client")
        resolved(rz) == afterZones(rz, zonesFailed(rz))
    IN  IF tun = "missing"
        THEN Outcome(stored(noTunnel), api, "tunnelmissing", "requeueAfter", {},
                     "none", "none", werr(noTunnel))
        ELSE IF tun = "notready"
        THEN Outcome(stored(notReady), api, "notready", "requeueAfter", {},
                     "none", "none", werr(notReady))
        ELSE resolved(resolveZones(s.spec, sec, fail))

\* faulty variant: observedGeneration is stamped right after the fetch
ReconcileOutcome_StampEarly(s, api, tun, sec, routeHosts, fail, clusterOk) ==
    IF ~s.exists
    THEN Outcome(s, api, "notfound", "done", {}, "none", "none", FALSE)
    ELSE IF s.deleting
    THEN reconcileDelete(s, api, tun, sec, fail, clusterOk)
    ELSE IF ~s.finalizer
    THEN IF clusterOk
         THEN Outcome([s EXCEPT !.finalizer = TRUE], api, "addfinalizer", "requeue",
                      {}, "none", "none", FALSE)
         ELSE Outcome(s, api, "addfinalizer", "error", {}, "none", "none", TRUE)
    ELSE reconcileSync([s EXCEPT !.status.ObservedGeneration = s.generation],
                       api, tun, sec, routeHosts, fail, clusterOk)

\* faulty variant: the finalizer is added and the same pass goes on to sync
ReconcileOutcome_NoRequeue(s, api, tun, sec, routeHosts, fail, clusterOk) ==
    IF ~s.exists
    THEN Outcome(s, api, "notfound", "done", {}, "none", "none", FALSE)
    ELSE IF s.deleting
    THEN reconcileDelete(s, api, tun, sec, fail, clusterOk)
    ELSE IF ~s.finalizer /\ ~clusterOk
    THEN Outcome(s, api, "addfinalizer", "error", {}, "none", "none", TRUE)
    ELSE reconcileSync([s EXCEPT !.finalizer = TRUE], api, tun, sec, routeHosts,
                       fail, clusterOk)

ReconcileOutcome(s, api, tun, sec, routeHosts, fail, clusterOk) ==
    IF ~s.exists
    THEN Outcome(s, api, "notfound", "done", {}, "none", "none", FALSE)
    ELSE IF s.deleting
    THEN reconcileDelete(s, api, tun, sec, fail, clusterOk)
    ELSE IF ~s.finalizer
    THEN IF clusterOk
         THEN Outcome([s EXCEPT !.finalizer = TRUE], api, "addfinalizer", "requeue",
                      {}, "none", "none", FALSE)
         ELSE Outcome(s, api, "addfinalizer", "error", {}, "none", "none", TRUE)
    ELSE reconcileSync(s, api, tun, sec, routeHosts, fail, clusterOk)

ReconcileWith(fail, clusterOk) ==
    LET api == [recs |-> records, next |-> nextID, log |-> <<>>, errs |-> FALSE]
    IN  \E out \in {ReconcileOutcome(sync, api, tunnel, secrets, routes, fail, clusterOk)} :
        /\ out.api.next <= MaxRecordID + 1
        \* an injected fault that no call of the pass meets is the pass without it
        /\ fail # {} => out.last.apiErr
        /\ ~clusterOk => out.last.clusterErr
        /\ sync' = out.sync
        /\ records' = out.api.recs
        /\ nextID' = out.api.next
        /\ last' = out.last
        /\ IF fail = {} /\ clusterOk THEN budget' = budget
           ELSE /\ budget.faults > 0
                /\ budget' = [budget EXCEPT !.faults = @ - 1]
        /\ UNCHANGED <<tunnel, secrets, routes, others>>

\* one fault per pass: one kind of API call fails, or the cluster write fails
Faults ==
    {[fail |-> f, clusterOk |-> TRUE] : f \in FailModes}
        \cup {[fail |-> {}, clusterOk |-> FALSE]}

Reconcile == \E f \in Faults : ReconcileWith(f.fail, f.clusterOk)

-----------------------------------------------------------------------------
(* The other components at rest, while the DNS sync reconciler is explored *)

NoAPC == [targetRef |-> <<>>, targetRefs |-> <<>>, objects |-> {}, grants |-> <<>>,
          built |-> FALSE, resolvedTargets |-> <<>>, fail |-> "none"]

NoHR == [parentRefs |-> <<>>, gateway |-> <<>>, backend |-> TRUE, parents |-> <<>>,
         last |-> "none"]

NoCC == [ttl |-> 0, requested |-> 0, entries |-> <<>>, now |-> 0, version |-> 0,
         th |-> <<>>]

NoCR == [exists |-> FALSE, deleting |-> FALSE, finalizer |-> FALSE,
         policy |-> "delete", tunnelId |-> 0]
NoCT == [ext |-> {}, nextId |-> 1, cr |-> NoCR, foreign |-> 0, last |-> "none"]

NoTC == [TunnelID |-> "", Ingress |-> <<>>, fallback |-> "", replaced |-> FALSE]

NoUS == [stored |-> <<>>, mem |-> <<>>, now |-> 0, edits |-> 0, last |-> "none"]

NoPeer == [sync |-> <<>>, routes |-> {}, last |-> <<>>]

NoGW == [gateways |-> <<>>, routes |-> <<>>, filter |-> "", hostnames |-> <<>>,
         collected |-> FALSE]

OthersIdle ==
    /\ apc = NoAPC
    /\ hr = NoHR
    /\ cc = NoCC
    /\ ct = NoCT
    /\ tc = NoTC
    /\ us = NoUS
    /\ peer = NoPeer
    /\ gw = NoGW

-----------------------------------------------------------------------------
(* The environment: users, other controllers, other writers of the zone *)

NoPass == [kind |-> "env", result |-> "none", log |-> <<>>, events |-> {},
           client |-> "none", cleanup |-> "none", apiErr |-> FALSE,
           clusterErr |-> FALSE]

\* The environment is explored in the order that matters to the reconciler.
\* A change made before the finalizer is in place and the tunnel is ready is
\* seen by the reconciler exactly as the same change made right after, so
\* routes and foreign writes move only once the object is settled.
\* reconcileDelete reads neither the status nor the routes, so the user
\* deletes the object right after a completed sync pass, and the tunnel and
\* its secret disappear only while the deletion is pending (regular passes
\* meet a missing tunnel before it is first created).
Settled == sync.exists /\ sync.finalizer /\ tunnel = "ready"

AddRoute ==
    \E h \in budget.hosts \ routes :
        /\ Settled /\ ~sync.deleting
        /\ routes' = routes \cup {h}
        /\ last' = NoPass
        /\ UNCHANGED <<records, nextID, sync, tunnel, secrets, budget, others>>

RemoveRoute ==
    \E h \in routes :
        /\ Settled /\ ~sync.deleting
        /\ routes' = routes \ {h}
        /\ last' = NoPass
        /\ UNCHANGED <<records, nextID, sync, tunnel, secrets, budget, others>>

\* somebody else creates a record in the zone, without the ownership marker
ForeignCreate ==
    \E h \in budget.hosts, type \in {"CNAME", "TXT"} :
        LET name == IF type = "CNAME" THEN h ELSE defaultOwnershipPrefix \o h
            rec == [id |-> nextID, zone |-> ZoneID, name |-> name, type |-> type,
                    content |-> ForeignContent, proxied |-> FALSE, ttl |-> ForeignTTL,
                    comment |-> ForeignComment]
        IN  /\ Settled
            /\ nextID <= MaxRecordID
            /\ ~\E i \in 1..Len(records) : records[i].name = name /\ records[i].type = type
            /\ records' = Append(records, rec)
            /\ nextID' = nextID + 1
            /\ last' = NoPass
            /\ budget.drift > 0
            /\ budget' = [budget EXCEPT !.drift = @ - 1]
            /\ UNCHANGED <<sync, tunnel, secrets, routes, others>>

\* somebody else deletes a record of the zone
ForeignDelete ==
    \E i \in 1..Len(records) :
        /\ Settled
        /\ records' = RemoveAt(records, i)
        /\ last' = NoPass
        /\ budget.drift > 0
        /\ budget' = [budget EXCEPT !.drift = @ - 1]
        /\ UNCHANGED <<nextID, sync, tunnel, secrets, routes, others>>

CreateTunnel ==
    /\ sync.exists /\ ~sync.deleting
    /\ tunnel = "missing"
    /\ tunnel' = "notready"
    /\ last' = NoPass
    /\ UNCHANGED <<records, nextID, sync, secrets, routes, budget, others>>

TunnelReady ==
    /\ sync.exists
    /\ tunnel = "notready"
    /\ tunnel' = "ready"
    /\ last' = NoPass
    /\ UNCHANGED <<records, nextID, sync, secrets, routes, budget, others>>

DeleteTunnel ==
    /\ sync.exists /\ sync.deleting
    /\ tunnel # "missing"
    /\ tunnel' = "missing"
    /\ last' = NoPass
    /\ UNCHANGED <<records, nextID, sync, secrets, routes, budget, others>>

DeleteTunnelSecret ==
    /\ sync.exists /\ sync.deleting
    /\ secrets.tunnel # "missing"
    /\ secrets' = [secrets EXCEPT !.tunnel = "missing"]
    /\ last' = NoPass
    /\ UNCHANGED <<records, nextID, sync, tunnel, routes, budget, others>>

\* the cleanup settings explored: policy, fallback reference, fallback secret
CleanupCases ==
    {[del |-> TRUE,  only |-> TRUE,  ref |-> FALSE, fb |-> "missing"],
     [del |-> TRUE,  only |-> TRUE,  ref |-> TRUE,  fb |-> "ok"],
     [del |-> TRUE,  only |-> TRUE,  ref |-> TRUE,  fb |-> "missing"],
     [del |-> TRUE,  only |-> FALSE, ref |-> FALSE, fb |-> "missing"],
     [del |-> TRUE,  only |-> FALSE, ref |-> TRUE,  fb |-> "ok"],
     [del |-> FALSE, only |-> TRUE,  ref |-> FALSE, fb |-> "missing"]}

DefaultCleanup == [del |-> TRUE, only |-> TRUE, ref |-> FALSE, fb |-> "missing"]

SpecOf(txt, c) ==
    [explicit |-> <<>>, gatewayRoutes |-> TRUE,
     zones |-> <<[Name |-> ZoneName, ID |-> ""]>>,
     proxied |-> TRUE, txtEnabled |-> txt, prefix |-> <<>>,
     deleteOnRouteRemoval |-> TRUE,
     deleteOnResourceRemoval |-> c.del, onlyManaged |-> c.only,
     fallbackRef |-> c.ref]

\* The user deletes the CloudflareDNSSync: the finalizer holds the object back.
\* Only reconcileDelete reads the cleanup policy and the fallback reference,
\* so the settings the deletion meets are the user's last edit before it.
DeleteSync ==
    \E c \in CleanupCases :
        /\ sync.exists /\ ~sync.deleting
        /\ sync.finalizer => last.kind = "synced"
        /\ ~sync.finalizer => c = DefaultCleanup
        /\ sync' = IF sync.finalizer
                   THEN [sync EXCEPT !.deleting = TRUE,
                                     !.spec = SpecOf(sync.spec.txtEnabled, c),
                                     !.generation = IF c = DefaultCleanup THEN @ ELSE @ + 1]
                   ELSE [sync EXCEPT !.exists = FALSE, !.status = EmptyStatus]
        /\ secrets' = [secrets EXCEPT !.fallback = c.fb]
        /\ last' = NoPass
        /\ UNCHANGED <<records, nextID, tunnel, routes, budget, others>>

-----------------------------------------------------------------------------
(* Specification *)

Init ==
    /\ records = <<>>
    /\ nextID = 1
    /\ \E txt \in BOOLEAN :
          sync = [exists |-> TRUE, deleting |-> FALSE, finalizer |-> FALSE,
                  generation |-> 1, spec |-> SpecOf(txt, DefaultCleanup),
                  status |-> EmptyStatus]
    /\ secrets = [tunnel |-> "ok", fallback |-> "missing"]
    /\ tunnel \in {"missing", "notready"}
    /\ routes = {}
    /\ last = NoPass
    /\ budget = [drift |-> MaxDrift, faults |-> MaxFaults, hosts |-> {HostA}, edits |-> 0]
    /\ OthersIdle

Next ==
    \/ Reconcile
    \/ AddRoute
    \/ RemoveRoute
    \/ ForeignCreate
    \/ ForeignDelete
    \/ CreateTunnel
    \/ TunnelReady
    \/ DeleteTunnel
    \/ DeleteTunnelSecret
    \/ DeleteSync

Spec == Init /\ [][Next]_vars

-----------------------------------------------------------------------------
(* The same reconciler under spec edits instead of foreign writes *)

\* the user edits the spec (here: the proxied flag); the API server bumps
\* metadata.generation and leaves the status alone
UpdateSpec ==
    /\ sync.exists /\ ~sync.deleting
    /\ budget.edits > 0
    /\ sync' = [sync EXCEPT !.spec.proxied = ~@, !.generation = @ + 1]
    /\ budget' = [budget EXCEPT !.edits = @ - 1]
    /\ last' = NoPass
    /\ UNCHANGED <<records, nextID, tunnel, secrets, routes, others>>

InitEdits ==
    /\ records = <<>>
    /\ nextID = 1
    /\ \E txt \in BOOLEAN :
          sync = [exists |-> TRUE, deleting |-> FALSE, finalizer |-> FALSE,
                  generation |-> 1, spec |-> SpecOf(txt, DefaultCleanup),
                  status |-> EmptyStatus]
    /\ secrets = [tunnel |-> "ok", fallback |-> "missing"]
    /\ tunnel \in {"missing", "notready"}
    /\ routes = {}
    /\ last = NoPass
    /\ budget = [drift |-> 0, faults |-> MaxFaults, hosts |-> {HostA}, edits |-> MaxEdits]
    /\ OthersIdle

NextEdits ==
    \/ Reconcile
    \/ UpdateSpec
    \/ AddRoute
    \/ RemoveRoute
    \/ CreateTunnel
    \/ TunnelReady
    \/ DeleteSync

EditSpec == InitEdits /\ [][NextEdits]_vars

-----------------------------------------------------------------------------
(* The same reconciler under the settings a user can write into the spec *)

\* an ExplicitHostname entry
ExplicitHostname(hostname, target, proxied, ttl) ==
    [Hostname |-> hostname, Target |-> target, Proxied |-> proxied, TTL |-> ttl]

TunnelDomainTemplate == <<"{{ .TunnelDomain }}">>

\* explicit lists: the templated target with its own proxied flag, a literal
\* target with its own TTL
ExplicitCases ==
    {<<ExplicitHostname(HostB, TunnelDomainTemplate, FALSE, "auto")>>,
     <<ExplicitHostname(HostB, <<"lb.corp">>, TRUE, "120")>>}

\* zone lists: a pre-resolved id (not the one a lookup would return), a zone
\* the account does not have, a multi-label zone with its id
ZoneCases ==
    {<<[Name |-> ZoneName, ID |-> "z9"]>>,
     <<[Name |-> ZoneName, ID |-> ""], [Name |-> <<"no", "zone">>, ID |-> ""]>>,
     <<[Name |-> ZoneName, ID |-> ""], [Name |-> ZoneUK, ID |-> ZoneUKID]>>}

\* the specs explored: the default, and one setting changed at a time
BaseSpec == SpecOf(FALSE, DefaultCleanup)

SpecCases ==
    {BaseSpec}
        \cup {[BaseSpec EXCEPT !.explicit = e] : e \in ExplicitCases}
        \cup {[BaseSpec EXCEPT !.zones = z] : z \in ZoneCases}
        \cup {[BaseSpec EXCEPT !.deleteOnRouteRemoval = FALSE]}

InitConfig ==
    /\ records = <<>>
    /\ nextID = 1
    /\ \E sp \in SpecCases :
          sync = [exists |-> TRUE, deleting |-> FALSE, finalizer |-> FALSE,
                  generation |-> 1, spec |-> sp, status |-> EmptyStatus]
    /\ secrets = [tunnel |-> "ok", fallback |-> "missing"]
    /\ tunnel = "notready"
    /\ routes = {}
    /\ last = NoPass
    /\ budget = [drift |-> 0, faults |-> MaxFaults, hosts |-> {HostA, HostUK},
                 edits |-> 0]
    /\ OthersIdle

NextConfig ==
    \/ Reconcile
    \/ AddRoute
    \/ RemoveRoute
    \/ TunnelReady

ConfigSpec == InitConfig /\ [][NextConfig]_vars

-----------------------------------------------------------------------------
(* The same reconciler while a user edits the comments of the zone's records *)

\* a user adds the ownership marker to the comment of a record that lacks it
AdoptRecord ==
    \E i \in 1..Len(records) :
        /\ Settled /\ ~sync.deleting
        /\ records[i].type = "CNAME"
        /\ ~Contains(records[i].comment, Marker)
        /\ budget.edits > 0
        /\ records' = [records EXCEPT ![i].comment = @ \o Marker]
        /\ budget' = [budget EXCEPT !.edits = @ - 1]
        /\ last' = NoPass
        /\ UNCHANGED <<nextID, sync, tunnel, secrets, routes, others>>

\* a user strips the ownership marker: the comment is replaced by another text
StripMarker ==
    \E i \in 1..Len(records) :
        /\ Settled /\ ~sync.deleting
        /\ records[i].type = "CNAME"
        /\ Contains(records[i].comment, Marker)
        /\ budget.edits > 0
        /\ records' = [records EXCEPT ![i].comment = ForeignComment]
        /\ budget' = [budget EXCEPT !.edits = @ - 1]
        /\ last' = NoPass
        /\ UNCHANGED <<nextID, sync, tunnel, secrets, routes, others>>

\* a user points an owned record somewhere else and leaves its comment alone
EditContent ==
    \E i \in 1..Len(records) :
        /\ Settled /\ ~sync.deleting
        /\ records[i].type = "CNAME"
        /\ Contains(records[i].comment, Marker)
        /\ records[i].content # ForeignContent
        /\ budget.edits > 0
        /\ records' = [records EXCEPT ![i].content = ForeignContent]
        /\ budget' = [budget EXCEPT !.edits = @ - 1]
        /\ last' = NoPass
        /\ UNCHANGED <<nextID, sync, tunnel, secrets, routes, others>>

InitMark ==
    /\ records = <<>>
    /\ nextID = 1
    /\ \E txt \in BOOLEAN :
          sync = [exists |-> TRUE, deleting |-> FALSE, finalizer |-> FALSE,
                  generation |-> 1, spec |-> SpecOf(txt, DefaultCleanup),
                  status |-> EmptyStatus]
    /\ secrets = [tunnel |-> "ok", fallback |-> "missing"]
    /\ tunnel = "notready"
    /\ routes = {}
    /\ last = NoPass
    /\ budget = [drift |-> MaxDrift, faults |-> MaxFaults, hosts |-> {HostA},
                 edits |-> MaxEdits]
    /\ OthersIdle

NextMark ==
    \/ Reconcile
    \/ AdoptRecord
    \/ StripMarker
    \/ EditContent
    \/ ForeignCreate
    \/ ForeignDelete
    \/ AddRoute
    \/ RemoveRoute
    \/ TunnelReady
    \/ DeleteSync

MarkSpec == InitMark /\ [][NextMark]_vars

-----------------------------------------------------------------------------
(* The same reconciler in a zone that holds the records of other tunnels *)

\* two more tunnels of the account: "t10", whose name begins with "t1", and "t2"
TunnelT10 == TunnelName \o <<"0">>
TunnelT2 == <<"t2">>
OtherTunnels == {TunnelT10, TunnelT2}
OtherDomain == <<"oid.cfargotunnel.com">>

\* the DNSSync of another tunnel writes its CNAME with its own comment
OtherTunnelCreate ==
    \E h \in {HostA, HostB}, t \in OtherTunnels :
        LET rec == [BuildCNAMERecord(h, OtherDomain, TRUE, ManagedComment(t))
                        EXCEPT !.id = nextID, !.zone = ZoneID]
        IN  /\ Settled /\ ~sync.deleting
            /\ nextID <= MaxRecordID
            /\ ~\E i \in 1..Len(records) : records[i].name = h /\ records[i].type = "CNAME"
            /\ records' = Append(records, rec)
            /\ nextID' = nextID + 1
            /\ last' = NoPass
            /\ budget.drift > 0
            /\ budget' = [budget EXCEPT !.drift = @ - 1]
            /\ UNCHANGED <<sync, tunnel, secrets, routes, others>>

InitShared ==
    /\ records = <<>>
    /\ nextID = 1
    /\ sync = [exists |-> TRUE, deleting |-> FALSE, finalizer |-> FALSE,
               generation |-> 1, spec |-> SpecOf(FALSE, DefaultCleanup),
               status |-> EmptyStatus]
    /\ secrets = [tunnel |-> "ok", fallback |-> "missing"]
    /\ tunnel = "notready"
    /\ routes = {}
    /\ last = NoPass
    /\ budget = [drift |-> MaxDrift, faults |-> MaxFaults, hosts |-> {HostA}, edits |-> 0]
    /\ OthersIdle

NextShared ==
    \/ Reconcile
    \/ OtherTunnelCreate
    \/ AddRoute
    \/ RemoveRoute
    \/ TunnelReady
    \/ DeleteTunnel
    \/ DeleteSync

SharedSpec == InitShared /\ [][NextShared]_vars

-----------------------------------------------------------------------------
(* Two CloudflareDNSSync objects bound to the same tunnel *)

\* The controller is built without options (SetupWithManager), so one worker
\* runs the passes of all CloudflareDNSSync objects one after the other: the
\* passes of two objects interleave as wholes, in any order.
PeerPass == [NoPass EXCEPT !.kind = "peer"]

PeerReconcile ==
    LET api == [recs |-> records, next |-> nextID, log |-> <<>>, errs |-> FALSE]
    IN  \E out \in {ReconcileOutcome(peer.sync, api, tunnel, secrets, peer.routes,
                                      {}, TRUE)} :
        /\ out.api.next <= MaxRecordID + 1
        /\ peer' = [peer EXCEPT !.sync = out.sync, !.last = out.last]
        /\ records' = out.api.recs
        /\ nextID' = out.api.next
        /\ last' = PeerPass
        /\ UNCHANGED <<sync, tunnel, secrets, routes, budget, notPeer>>

\* a route that carries the second object's filter annotation appears or goes
PeerAddRoute ==
    \E h \in budget.hosts \ peer.routes :
        /\ peer.sync.finalizer /\ tunnel = "ready"
        /\ peer' = [peer EXCEPT !.routes = @ \cup {h}]
        /\ last' = NoPass
        /\ UNCHANGED <<records, nextID, sync, tunnel, secrets, routes, budget, notPeer>>

PeerRemoveRoute ==
    \E h \in peer.routes :
        /\ peer.sync.finalizer /\ tunnel = "ready"
        /\ peer' = [peer EXCEPT !.routes = @ \ {h}]
        /\ last' = NoPass
        /\ UNCHANGED <<records, nextID, sync, tunnel, secrets, routes, budget, notPeer>>

InitPeer ==
    /\ records = <<>>
    /\ nextID = 1
    /\ sync = [exists |-> TRUE, deleting |-> FALSE, finalizer |-> FALSE,
               generation |-> 1, spec |-> SpecOf(FALSE, DefaultCleanup),
               status |-> EmptyStatus]
    /\ secrets = [tunnel |-> "ok", fallback |-> "missing"]
    /\ tunnel = "notready"
    /\ routes = {}
    /\ last = NoPass
    /\ budget = [drift |-> 0, faults |-> MaxFaults, hosts |-> {HostA}, edits |-> 0]
    /\ apc = NoAPC /\ hr = NoHR /\ cc = NoCC /\ ct = NoCT /\ tc = NoTC /\ us = NoUS
    /\ gw = NoGW
    /\ \E proxied \in BOOLEAN :
          peer = [sync |-> [sync EXCEPT !.spec.proxied = proxied],
                  routes |-> {}, last |-> NoPass]

NextPeer ==
    \/ Reconcile
    \/ PeerReconcile
    \/ AddRoute
    \/ RemoveRoute
    \/ PeerAddRoute
    \/ PeerRemoveRoute
    \/ TunnelReady

PeerSpec == InitPeer /\ [][NextPeer]_vars

-----------------------------------------------------------------------------
(* The DNS sync reconciler at rest, while another component is explored *)

DNSIdle ==
    /\ records = <<>>
    /\ nextID = 1
    /\ sync = [exists |-> FALSE, deleting |-> FALSE, finalizer |-> FALSE,
               generation |-> 1, spec |-> SpecOf(FALSE, DefaultCleanup),
               status |-> EmptyStatus]
    /\ secrets = [tunnel |-> "ok", fallback |-> "missing"]
    /\ tunnel = "missing"
    /\ routes = {}
    /\ last = NoPass
    /\ budget = [drift |-> 0, faults |-> 0, hosts |-> {}, edits |-> 0]

\* what each component leaves alone, and the rest at rest around it
notAPC == <<dnsVars, hr, cc, ct, tc, us, peer, gw>>
notHR == <<dnsVars, apc, cc, ct, tc, us, peer, gw>>
notCC == <<dnsVars, apc, hr, ct, tc, us, peer, gw>>
notCT == <<dnsVars, apc, hr, cc, tc, us, peer, gw>>
notTC == <<dnsVars, apc, hr, cc, ct, us, peer, gw>>
notUS == <<dnsVars, apc, hr, cc, ct, tc, peer, gw>>
notGW == <<dnsVars, apc, hr, cc, ct, tc, us, peer>>

APCAlone ==
    DNSIdle /\ hr = NoHR /\ cc = NoCC /\ ct = NoCT /\ tc = NoTC /\ us = NoUS
    /\ peer = NoPeer /\ gw = NoGW
HRAlone ==
    DNSIdle /\ apc = NoAPC /\ cc = NoCC /\ ct = NoCT /\ tc = NoTC /\ us = NoUS
    /\ peer = NoPeer /\ gw = NoGW
CCAlone ==
    DNSIdle /\ apc = NoAPC /\ hr = NoHR /\ ct = NoCT /\ tc = NoTC /\ us = NoUS
    /\ peer = NoPeer /\ gw = NoGW
CTAlone ==
    DNSIdle /\ apc = NoAPC /\ hr = NoHR /\ cc = NoCC /\ tc = NoTC /\ us = NoUS
    /\ peer = NoPeer /\ gw = NoGW
TCAlone ==
    DNSIdle /\ apc = NoAPC /\ hr = NoHR /\ cc = NoCC /\ ct = NoCT /\ us = NoUS
    /\ peer = NoPeer /\ gw = NoGW
USAlone ==
    DNSIdle /\ apc = NoAPC /\ hr = NoHR /\ cc = NoCC /\ ct = NoCT /\ tc = NoTC
    /\ peer = NoPeer /\ gw = NoGW
GWAlone ==
    DNSIdle /\ apc = NoAPC /\ hr = NoHR /\ cc = NoCC /\ ct = NoCT /\ tc = NoTC
    /\ us = NoUS /\ peer = NoPeer

-----------------------------------------------------------------------------
(* internal/controller/context/wrappers.go: access policy target resolution *)

MaxRefs == 2

PolicyNamespace == "team-a"
OtherNamespace == "team-b"

OperatorGroup == "cfgate.io"
GatewayGroup == "gateway.networking.k8s.io"

\* kinds admitted by the CRD enum of PolicyTargetReference.Kind
TargetKinds == {"Gateway", "HTTPRoute", "GRPCRoute", "TCPRoute", "UDPRoute"}

\* a nil *string
Nil == <<>>
\* a pointer to the string v
Ptr(v) == <<v>>

\* the objects that may exist in the cluster
TargetObjects ==
    {[kind |-> "HTTPRoute", namespace |-> PolicyNamespace, name |-> "a"],
     [kind |-> "HTTPRoute", namespace |-> OtherNamespace, name |-> "b"],
     [kind |-> "Gateway", namespace |-> OtherNamespace, name |-> "gw"]}

\* the references a policy may declare
RefCases ==
    {[kind |-> "HTTPRoute", name |-> "a", namespace |-> Nil],
     [kind |-> "HTTPRoute", name |-> "a", namespace |-> Ptr("")],
     [kind |-> "HTTPRoute", name |-> "a", namespace |-> Ptr(PolicyNamespace)],
     [kind |-> "HTTPRoute", name |-> "b", namespace |-> Ptr(OtherNamespace)],
     [kind |-> "HTTPRoute", name |-> "b", namespace |-> Nil],
     [kind |-> "Gateway", name |-> "gw", namespace |-> Ptr(OtherNamespace)]}

GrantFrom(group, kind, namespace) ==
    [group |-> group, kind |-> kind, namespace |-> namespace]
GrantTo(group, kind) == [group |-> group, kind |-> kind]

GoodFrom == GrantFrom(OperatorGroup, "CloudflareAccessPolicy", PolicyNamespace)

FromCases ==
    {<<GoodFrom>>,
     <<GrantFrom("other.io", "CloudflareAccessPolicy", PolicyNamespace)>>,
     <<GrantFrom(OperatorGroup, "CloudflareDNSSync", PolicyNamespace)>>,
     <<GrantFrom(OperatorGroup, "CloudflareAccessPolicy", OtherNamespace)>>,
     <<GrantFrom(GatewayGroup, "HTTPRoute", PolicyNamespace), GoodFrom>>}

ToCases ==
    {<<GrantTo(GatewayGroup, "HTTPRoute")>>,
     <<GrantTo(GatewayGroup, "Gateway")>>,
     <<GrantTo("", "HTTPRoute")>>,
     <<GrantTo("", "Service"), GrantTo(GatewayGroup, "HTTPRoute")>>}

GoodTo == GrantTo(GatewayGroup, "HTTPRoute")

Grant(namespace, from, to) == [namespace |-> namespace, from |-> from, to |-> to]

\* a grant that permits the HTTPRoute reference, and grants that differ from
\* it in the namespace they live in, in their from entries or in their to
\* entries
GrantCases ==
    {Grant(ns, <<GoodFrom>>, <<GoodTo>>) : ns \in {PolicyNamespace, OtherNamespace}}
    \cup {Grant(OtherNamespace, f, <<GoodTo>>) : f \in FromCases}
    \cup {Grant(OtherNamespace, <<GoodFrom>>, t) : t \in ToCases}

\* the ReferenceGrants of the cluster, in list order: none, one, or a grant
\* that permits nothing followed by one that does
GrantLists ==
    {<<>>} \cup {<<g>> : g \in GrantCases}
           \cup {<<Grant(OtherNamespace, <<GoodFrom>>, <<GrantTo("", "Service")>>),
                   Grant(OtherNamespace, <<GoodFrom>>, <<GoodTo>>)>>}

\* what may be down while the targets are resolved: nothing, Get, or List
ReadFaults == {"none", "get", "list"}

targetExists(objects, kind, namespace, name, fail) ==
    IF kind \notin TargetKinds
    THEN [exists |-> FALSE, err |-> "unsupported target kind"]
    ELSE IF fail = "get"
    THEN [exists |-> FALSE, err |-> "get failed"]
    ELSE IF [kind |-> kind, namespace |-> namespace, name |-> name] \in objects
    THEN [exists |-> TRUE, err |-> ""]
    ELSE [exists |-> FALSE, err |-> ""]

\* faulty variant: the kind the grant permits is not compared
checkReferenceGrant_AnyKind(grants, fromNamespace, toNamespace, targetKind, fail) ==
    IF fail = "list" THEN [granted |-> FALSE, err |-> "list failed"]
    ELSE [granted |->
            \E g \in 1..Len(grants) :
                /\ grants[g].namespace = toNamespace
                /\ \E f \in 1..Len(grants[g].from) :
                     /\ grants[g].from[f].group = OperatorGroup
                     /\ grants[g].from[f].kind = "CloudflareAccessPolicy"
                     /\ grants[g].from[f].namespace = fromNamespace
                     /\ \E t \in 1..Len(grants[g].to) :
                          grants[g].to[t].group = GatewayGroup,
          err |-> ""]

\* the nested loops return true at the first from entry that matches and
\* has a matching to entry, and false when the lists are exhausted
checkReferenceGrant(grants, fromNamespace, toNamespace, targetKind, fail) ==
    IF fail = "list" THEN [granted |-> FALSE, err |-> "list failed"]
    ELSE [granted |->
            \E g \in 1..Len(grants) :
                /\ grants[g].namespace = toNamespace
                /\ \E f \in 1..Len(grants[g].from) :
                     /\ grants[g].from[f].group = OperatorGroup
                     /\ grants[g].from[f].kind = "CloudflareAccessPolicy"
                     /\ grants[g].from[f].namespace = fromNamespace
                     /\ \E t \in 1..Len(grants[g].to) :
                          /\ grants[g].to[t].group = GatewayGroup
                          /\ grants[g].to[t].kind = targetKind,
          err |-> ""]

resolveTarget(ref, defaultNamespace, objects, grants, fail) ==
    LET namespace == IF ref.namespace # Nil /\ ref.namespace[1] # ""
                     THEN ref.namespace[1] ELSE defaultNamespace
        info == [Kind |-> ref.kind, Namespace |-> namespace, Name |-> ref.name,
                 Resolved |-> FALSE, Error |-> ""]
        found == targetExists(objects, ref.kind, namespace, ref.name, fail)
        grant == checkReferenceGrant(grants, defaultNamespace, namespace, ref.kind, fail)
    IN  IF found.err # "" THEN [info EXCEPT !.Error = found.err]
        ELSE IF ~found.exists THEN [info EXCEPT !.Error = "target not found"]
        ELSE IF namespace # defaultNamespace /\ grant.err # ""
        THEN [info EXCEPT !.Error = "checking ReferenceGrant"]
        ELSE IF namespace # defaultNamespace /\ ~grant.granted
        THEN [info EXCEPT !.Error = "not permitted by ReferenceGrant"]
        ELSE [info EXCEPT !.Resolved = TRUE]

RECURSIVE resolveEach(_, _, _, _, _)
\* the loop over policy.Spec.TargetRefs, appending one TargetInfo per entry
resolveEach(refs, defaultNamespace, objects, grants, fail) ==
    IF refs = <<>> THEN <<>>
    ELSE <<resolveTarget(Head(refs), defaultNamespace, objects, grants, fail)>>
         \o resolveEach(Tail(refs), defaultNamespace, objects, grants, fail)

RECURSIVE resolveTargets_AbortOnError(_, _, _, _, _, _)
\* faulty variant: the first reference that fails ends the resolution
resolveTargets_AbortOnError(targetRef, targetRefs, namespace, objects, grants, fail) ==
    LET refs == targetRef \o targetRefs
        t == resolveTarget(Head(refs), namespace, objects, grants, fail)
    IN  IF refs = <<>> THEN <<>>
        ELSE IF t.Error # "" THEN <<t>>
        ELSE <<t>> \o resolveTargets_AbortOnError(<<>>, Tail(refs), namespace,
                                                  objects, grants, fail)

\* targetRef is a pointer: <<>> when nil, <<ref>> otherwise
resolveTargets(targetRef, targetRefs, namespace, objects, grants, fail) ==
    LET single == IF targetRef # Nil
                  THEN <<resolveTarget(targetRef[1], namespace, objects, grants, fail)>>
                  ELSE <<>>
    IN  single \o resolveEach(targetRefs, namespace, objects, grants, fail)

\* NewAccessPolicyContext: the reconciler resolves the targets of the policy
NewAccessPolicyContext ==
    /\ ~apc.built
    /\ \E fail \in ReadFaults :
         apc' = [apc EXCEPT
                    !.built = TRUE,
                    !.fail = fail,
                    !.resolvedTargets =
                        resolveTargets(apc.targetRef, apc.targetRefs, PolicyNamespace,
                                       apc.objects, apc.grants, fail)]
    /\ UNCHANGED notAPC

\* the context lives for one reconciliation
DropContext == [apc EXCEPT !.built = FALSE, !.fail = "none", !.resolvedTargets = <<>>]

\* the user appends a reference to spec.targetRefs
AppendTargetRef ==
    /\ Len(apc.targetRefs) < MaxRefs
    /\ \E ref \in RefCases :
         apc' = [DropContext EXCEPT !.targetRefs = Append(@, ref)]
    /\ UNCHANGED notAPC

\* a target object is created or deleted
ToggleTarget ==
    /\ \E o \in TargetObjects :
         apc' = [DropContext EXCEPT
                    !.objects = IF o \in @ THEN @ \ {o} ELSE @ \cup {o}]
    /\ UNCHANGED notAPC

InitAPC ==
    /\ APCAlone
    /\ \E single \in {Nil} \cup {Ptr(r) : r \in RefCases}, gl \in GrantLists :
          apc = [NoAPC EXCEPT !.targetRef = single, !.grants = gl]

NextAPC ==
    \/ NewAccessPolicyContext
    \/ AppendTargetRef
    \/ ToggleTarget

APCSpec == InitAPC /\ [][NextAPC]_vars

-----------------------------------------------------------------------------
(* internal/controller/httproute_controller.go: the HTTPRoute reconciler *)

MaxParents == 2

GatewayControllerName == "cfgate.io/cloudflare-tunnel-controller"
ForeignControllerName == "example.net/other-controller"

RouteNamespace == PolicyNamespace
RouteGeneration == 1

\* GatewayClass name -> spec.controllerName; a class outside the domain does
\* not exist
GatewayClasses ==
    [c \in {"cfgate", "nginx"} |->
        IF c = "cfgate" THEN GatewayControllerName ELSE ForeignControllerName]

\* a listener: its name, AllowedRoutes.Namespaces.From and the namespaces
\* its selector selects (read when From is Selector)
Listener(name, from, selected) ==
    [name |-> name,
     allowedRoutes |-> Ptr([namespaces |-> Ptr([from |-> Ptr(from), selected |-> selected])])]

ListenerLists ==
    {<<>>,
     <<Listener("http", "All", {})>>,
     <<Listener("http", "Same", {})>>,
     <<Listener("http", "Selector", {RouteNamespace})>>,
     <<Listener("http", "Selector", {OtherNamespace})>>,
     <<Listener("web", "All", {}), Listener("http", "Same", {})>>}

\* the Gateway named gw: absent (a nil pointer), or present in one namespace
GatewayCases ==
    {Nil} \cup
    {Ptr([namespace |-> ns, name |-> "gw", className |-> c, tunnelRef |-> a,
          listeners |-> l]) :
        ns \in {RouteNamespace, OtherNamespace}, c \in {"cfgate", "nginx", "gone"},
        a \in BOOLEAN, l \in ListenerLists}

ParentRefCases ==
    {[name |-> "gw", namespace |-> Nil, sectionName |-> Nil],
     [name |-> "gw", namespace |-> Nil, sectionName |-> Ptr("http")],
     [name |-> "gw", namespace |-> Ptr(OtherNamespace), sectionName |-> Ptr("http")],
     [name |-> "gw", namespace |-> Nil, sectionName |-> Ptr("admin")]}

\* what may be down during one reconciliation: nothing, Get, or Status().Update
RouteFaults == {"none", "get", "update"}

\* the loop over gateway.Spec.Listeners: the first listener with the name
\* decides, and only From = Same is compared with the route's namespace
listenerCheck(listeners, sectionName, routeNamespace, gatewayNamespace) ==
    LET hits == SelectSeq(listeners, LAMBDA l : l.name = sectionName)
        ar == hits[1].allowedRoutes
    IN  IF hits = <<>>
        THEN [accepted |-> FALSE, reason |-> "NoMatchingListenerHostname"]
        ELSE IF /\ ar # Nil
                /\ ar[1].namespaces # Nil
                /\ ar[1].namespaces[1].from = Ptr("Same")
                /\ routeNamespace # gatewayNamespace
        THEN [accepted |-> FALSE, reason |-> "NotAllowedByListeners"]
        ELSE [accepted |-> TRUE, reason |-> ""]

validateParentRef(routeNamespace, ref, gateway, fault) ==
    LET gwNamespace == IF ref.namespace # Nil THEN ref.namespace[1] ELSE routeNamespace
    IN  IF fault = "get" THEN [accepted |-> FALSE, reason |-> "Error"]
        ELSE IF gateway = Nil \/ gateway[1].namespace # gwNamespace \/ gateway[1].name # ref.name
        THEN [accepted |-> FALSE, reason |-> "NoMatchingParent"]
        ELSE IF gateway[1].className \notin DOMAIN GatewayClasses
        THEN [accepted |-> FALSE, reason |-> "NoMatchingParent"]
        ELSE IF GatewayClasses[gateway[1].className] # GatewayControllerName
        THEN [accepted |-> FALSE, reason |-> "NoMatchingParent"]
        ELSE IF ~gateway[1].tunnelRef
        THEN [accepted |-> FALSE, reason |-> "NoTunnelRef"]
        ELSE IF ref.sectionName # Nil
        THEN listenerCheck(gateway[1].listeners, ref.sectionName[1], routeNamespace,
                           gateway[1].namespace)
        ELSE [accepted |-> TRUE, reason |-> ""]

RouteCondition(type, status, reason) ==
    [Type |-> type, Status |-> status, Reason |-> reason,
     ObservedGeneration |-> RouteGeneration]

\* the RouteParentStatus built for one parentRef
parentStatus(routeNamespace, ref, gateway, backendsOk, fault) ==
    LET v == validateParentRef(routeNamespace, ref, gateway, fault)
        parentNS == IF ref.namespace # Nil THEN ref.namespace[1] ELSE routeNamespace
    IN  [ParentRef |-> [Namespace |-> Ptr(parentNS), Name |-> ref.name,
                        SectionName |-> ref.sectionName],
         ControllerName |-> GatewayControllerName,
         Conditions |->
            <<IF v.accepted THEN RouteCondition("Accepted", "True", "Accepted")
              ELSE RouteCondition("Accepted", "False", v.reason),
              IF backendsOk THEN RouteCondition("ResolvedRefs", "True", "ResolvedRefs")
              ELSE RouteCondition("ResolvedRefs", "False", "BackendNotFound")>>]

\* resolveBackends: the Service the route's rule points to is looked up
resolveBackends(backend, fault) == backend /\ fault # "get"

\* Reconcile: one RouteParentStatus per parentRef, then
\* route.Status.Parents = parentStatuses and Status().Update.  last tells
\* how the pass ended: the status stored from successful reads, the status
\* stored from reads that failed, or the update refused.
ReconcileRoute ==
    \E fault \in RouteFaults :
        LET ok == resolveBackends(hr.backend, fault)
            parentStatuses ==
                [i \in 1..Len(hr.parentRefs) |->
                    parentStatus(RouteNamespace, hr.parentRefs[i], hr.gateway, ok, fault)]
        IN  /\ hr' = IF fault = "update"
                     THEN [hr EXCEPT !.last = "updatefailed"]
                     ELSE [hr EXCEPT !.parents = parentStatuses,
                                     !.last = IF fault = "get" THEN "readfailed"
                                              ELSE "reconciled"]
            /\ UNCHANGED notHR

\* the user appends a parentRef to the route
AppendParentRef ==
    /\ Len(hr.parentRefs) < MaxParents
    /\ \E ref \in ParentRefCases :
         hr' = [hr EXCEPT !.parentRefs = Append(@, ref), !.last = "env"]
    /\ UNCHANGED notHR

\* the backend Service is created or deleted
ToggleBackend ==
    /\ hr' = [hr EXCEPT !.backend = ~@, !.last = "env"]
    /\ UNCHANGED notHR

\* another controller stamps its own RouteParentStatus on the route
ForeignStamp ==
    /\ \A i \in 1..Len(hr.parents) : hr.parents[i].ControllerName = GatewayControllerName
    /\ hr' = [hr EXCEPT
                 !.parents = Append(@,
                    [ParentRef |-> [Namespace |-> Nil, Name |-> "mesh", SectionName |-> Nil],
                     ControllerName |-> ForeignControllerName,
                     Conditions |-> <<RouteCondition("Accepted", "True", "Accepted")>>]),
                 !.last = "env"]
    /\ UNCHANGED notHR

InitHR ==
    /\ HRAlone
    /\ \E g \in GatewayCases : hr = [NoHR EXCEPT !.gateway = g]

NextHR ==
    \/ ReconcileRoute
    \/ AppendParentRef
    \/ ToggleBackend
    \/ ForeignStamp

HRSpec == InitHR /\ [][NextHR]_vars

-----------------------------------------------------------------------------
(* internal/cloudflare/cache.go: CredentialCache.  Times are in seconds.   *)

MaxTicks == 4
MaxVersion == 2

DefaultCacheTTL == 30

\* the clock advances in steps of ten seconds
TickSeconds == 10

\* the ttl values the cache is constructed with
TTLCases == {-10, 0, 20}

Callers == {1, 2}

\* the secret as the API server holds it after v writes
SecretAt(v) == [UID |-> <<"uid-1">>, ResourceVersion |-> <<v>>]

NoClient == [for |-> [UID |-> <<>>, ResourceVersion |-> <<>>]]
NoEntry == [client |-> NoClient, expiresAt |-> 0, storedAt |-> 0]

NewCredentialCache(ttl) == IF ttl <= 0 THEN DefaultCacheTTL ELSE ttl

\* string(secret.UID) + ":" + secret.ResourceVersion
cacheKey(secret) == secret.UID \o <<":">> \o secret.ResourceVersion

\* faulty variant: the expiry of the entry is not looked at
Get_NoExpiry(entries, secret, now) ==
    LET key == cacheKey(secret)
    IN  IF key \notin DOMAIN entries THEN [outcome |-> "miss", entry |-> NoEntry]
        ELSE [outcome |-> "hit", entry |-> entries[key]]

\* Get up to its decision: the entry read under the read lock, and whether
\* time.Now() is after its expiry
Get(entries, secret, now) ==
    LET key == cacheKey(secret)
    IN  IF key \notin DOMAIN entries THEN [outcome |-> "miss", entry |-> NoEntry]
        ELSE IF now > entries[key].expiresAt
        THEN [outcome |-> "expired", entry |-> entries[key]]
        ELSE [outcome |-> "hit", entry |-> entries[key]]

\* delete(c.entries, key)
Without(entries, key) == [k \in DOMAIN entries \ {key} |-> entries[k]]

\* c.entries[key] = cacheEntry{client, time.Now().Add(c.ttl)}; storedAt
\* remembers when, for the properties
Set(entries, secret, client, now, ttl) ==
    [k \in DOMAIN entries \cup {cacheKey(secret)} |->
        IF k = cacheKey(secret)
        THEN [client |-> client, expiresAt |-> now + ttl, storedAt |-> now]
        ELSE entries[k]]

IdleCaller == [pc |-> "idle", op |-> "", secret |-> SecretAt(0), entry |-> NoEntry,
               client |-> NoClient, at |-> 0]

\* what a caller does after Get returned nil
AfterMiss(c) ==
    IF c.op = "Get" THEN [c EXCEPT !.pc = "done", !.client = NoClient]
    ELSE [c EXCEPT !.pc = "create"]

\* a goroutine calls Get or GetOrCreate with the secret it just read
Call(t) ==
    /\ cc.th[t].pc = "idle"
    /\ \E op \in {"Get", "GetOrCreate"} :
         cc' = [cc EXCEPT !.th[t] = [IdleCaller EXCEPT !.pc = "get", !.op = op,
                                        !.secret = SecretAt(cc.version)]]
    /\ UNCHANGED notCC

\* Get: the lookup under RLock and the expiry test
GetLookup(t) ==
    /\ cc.th[t].pc = "get"
    /\ LET g == Get(cc.entries, cc.th[t].secret, cc.now)
           c == [cc.th[t] EXCEPT !.entry = g.entry, !.at = cc.now]
       IN  cc' = [cc EXCEPT !.th[t] =
                    CASE g.outcome = "miss" -> AfterMiss(c)
                      [] g.outcome = "expired" -> [c EXCEPT !.pc = "delete"]
                      [] g.outcome = "hit" ->
                           [c EXCEPT !.pc = "done", !.client = g.entry.client]]
    /\ UNCHANGED notCC

\* Get: the expired entry's key is deleted under Lock, nil is returned
GetDelete(t) ==
    /\ cc.th[t].pc = "delete"
    /\ cc' = [cc EXCEPT !.entries = Without(@, cacheKey(cc.th[t].secret)),
                        !.th[t] = AfterMiss(@)]
    /\ UNCHANGED notCC

\* GetOrCreate: createFn is invoked and returns a client or an error
Create(t) ==
    /\ cc.th[t].pc = "create"
    /\ \E err \in BOOLEAN :
         cc' = [cc EXCEPT !.th[t] =
                  [@ EXCEPT !.pc = IF err THEN "done" ELSE "set",
                            !.client = IF err THEN NoClient
                                       ELSE [for |-> cc.th[t].secret],
                            !.at = cc.now]]
    /\ UNCHANGED notCC

\* GetOrCreate: c.Set(secret, client), then the client is returned
Store(t) ==
    /\ cc.th[t].pc = "set"
    /\ cc' = [cc EXCEPT
                 !.entries = Set(@, cc.th[t].secret, cc.th[t].client, cc.now, cc.ttl),
                 !.th[t].pc = "done"]
    /\ UNCHANGED notCC

\* the call has returned
Return(t) ==
    /\ cc.th[t].pc = "done"
    /\ cc' = [cc EXCEPT !.th[t] = IdleCaller]
    /\ UNCHANGED notCC

\* time passes
Tick ==
    /\ cc.now < MaxTicks * TickSeconds
    /\ cc' = [cc EXCEPT !.now = @ + TickSeconds]
    /\ UNCHANGED notCC

\* the secret is updated: same UID, next resourceVersion
MutateSecret ==
    /\ cc.version < MaxVersion
    /\ cc' = [cc EXCEPT !.version = @ + 1]
    /\ UNCHANGED notCC

InitCC ==
    /\ CCAlone
    /\ \E ttl \in TTLCases :
          cc = [ttl |-> NewCredentialCache(ttl), requested |-> ttl, entries |-> <<>>,
                now |-> 0, version |-> 1, th |-> [t \in Callers |-> IdleCaller]]

NextCC ==
    \/ \E t \in Callers :
          \/ Call(t)
          \/ GetLookup(t)
          \/ GetDelete(t)
          \/ Create(t)
          \/ Store(t)
          \/ Return(t)
    \/ Tick
    \/ MutateSecret

CCSpec == InitCC /\ [][NextCC]_vars

-----------------------------------------------------------------------------
(* The tunnel reconciler.  Its controller is not among the sources; it is  *)
(* modelled from the specification (section 4.2) and from what the tunnel  *)
(* end-to-end tests drive and observe.                                     *)

MaxTunnelID == 3
MaxForeign == 1

\* the name the CloudflareTunnel asks for
DesiredName == "e2e-tunnel"

\* external tunnels of the account with that name
TunnelsNamed(ext, name) == {t \in ext : t.name = name}

\* the oldest tunnel of a non-empty set: ids are handed out in creation order
Oldest(ts) == CHOOSE t \in ts : \A u \in ts : t.id <= u.id

TunnelFaults == {"none", "list", "create", "delete", "status"}

\* faulty variant: a tunnel is created whenever the status holds no id yet
adoptOrCreate_NoLookup(ext, nextId, knownId, name, fault) ==
    IF fault = "list" THEN [ext |-> ext, nextId |-> nextId, id |-> 0, err |-> TRUE]
    ELSE IF knownId # 0
    THEN [ext |-> ext, nextId |-> nextId, id |-> knownId, err |-> FALSE]
    ELSE IF fault = "create"
    THEN [ext |-> ext, nextId |-> nextId, id |-> 0, err |-> TRUE]
    ELSE [ext |-> ext \cup {[id |-> nextId, name |-> name, by |-> "operator",
                             conns |-> FALSE]},
          nextId |-> nextId + 1, id |-> nextId, err |-> FALSE]

\* adopt or create: list the account's tunnels; adopt the one with the
\* desired name (the oldest if several), otherwise create one
adoptOrCreate(ext, nextId, knownId, name, fault) ==
    IF fault = "list" THEN [ext |-> ext, nextId |-> nextId, id |-> 0, err |-> TRUE]
    ELSE IF TunnelsNamed(ext, name) # {}
    THEN [ext |-> ext, nextId |-> nextId, id |-> Oldest(TunnelsNamed(ext, name)).id,
          err |-> FALSE]
    ELSE IF fault = "create"
    THEN [ext |-> ext, nextId |-> nextId, id |-> 0, err |-> TRUE]
    ELSE [ext |-> ext \cup {[id |-> nextId, name |-> name, by |-> "operator",
                             conns |-> FALSE]},
          nextId |-> nextId + 1, id |-> nextId, err |-> FALSE]

\* faulty variant: the finalizer is removed without deleting the tunnel
deleteTunnel_KeepExternal(c, fault) ==
    [c EXCEPT !.cr = NoCR, !.last = "deleted"]

\* deletion: with policy orphan the finalizer is removed at once; otherwise
\* the external tunnel recorded in the status is deleted first, which is
\* refused (DeletionBlocked, requeue) while connections are active
deleteTunnel(c, fault) ==
    LET held == {t \in c.ext : t.id = c.cr.tunnelId}
    IN  IF c.cr.policy = "orphan" THEN [c EXCEPT !.cr = NoCR, !.last = "orphaned"]
        ELSE IF \E t \in held : t.conns THEN [c EXCEPT !.last = "blocked"]
        ELSE IF held # {} /\ fault = "delete" THEN [c EXCEPT !.last = "error"]
        ELSE [c EXCEPT !.ext = @ \ held, !.cr = NoCR, !.last = "deleted"]

\* one reconciliation of the CloudflareTunnel.  A status write that fails
\* (or an operator restart before it) loses the id of the pass.
reconcileTunnel(c, fault) ==
    LET a == adoptOrCreate(c.ext, c.nextId, c.cr.tunnelId, DesiredName, fault)
        made == [c EXCEPT !.ext = a.ext, !.nextId = a.nextId]
    IN  IF ~c.cr.exists THEN [c EXCEPT !.last = "notfound"]
        ELSE IF c.cr.deleting THEN deleteTunnel(c, fault)
        ELSE IF ~c.cr.finalizer
        THEN [c EXCEPT !.cr.finalizer = TRUE, !.last = "addfinalizer"]
        ELSE IF a.err THEN [c EXCEPT !.last = "error"]
        ELSE IF fault = "status" THEN [made EXCEPT !.last = "error"]
        ELSE [made EXCEPT !.cr.tunnelId = a.id, !.last = "ready"]

ReconcileTunnel ==
    /\ \E fault \in TunnelFaults :
         \E out \in {reconcileTunnel(ct, fault)} :
            /\ out.nextId <= MaxTunnelID + 1
            /\ fault # "none" => out.last = "error"
            /\ ct' = out
    /\ UNCHANGED notCT

\* somebody creates a tunnel with the desired name through the Cloudflare API
PreCreate ==
    /\ ct.foreign < MaxForeign
    /\ ct.nextId <= MaxTunnelID
    /\ ct' = [ct EXCEPT !.ext = @ \cup {[id |-> ct.nextId, name |-> DesiredName,
                                          by |-> "foreign", conns |-> FALSE]},
                        !.nextId = @ + 1, !.foreign = @ + 1, !.last = "env"]
    /\ UNCHANGED notCT

\* the user creates the CloudflareTunnel, with or without the orphan policy
CreateCR ==
    /\ ~ct.cr.exists
    /\ \E policy \in {"delete", "orphan"} :
         ct' = [ct EXCEPT !.cr = [NoCR EXCEPT !.exists = TRUE, !.policy = policy],
                          !.last = "env"]
    /\ UNCHANGED notCT

\* the user deletes the CloudflareTunnel
DeleteCR ==
    /\ ct.cr.exists /\ ~ct.cr.deleting
    /\ ct' = [ct EXCEPT !.cr = IF ct.cr.finalizer THEN [@ EXCEPT !.deleting = TRUE]
                                ELSE NoCR,
                        !.last = "env"]
    /\ UNCHANGED notCT

\* the agents of the adopted tunnel connect or disconnect
ToggleConnections ==
    /\ ct.cr.exists /\ ct.cr.tunnelId # 0
    /\ \E t \in ct.ext :
         /\ t.id = ct.cr.tunnelId
         /\ ct' = [ct EXCEPT !.ext = (@ \ {t}) \cup {[t EXCEPT !.conns = ~@]},
                             !.last = "env"]
    /\ UNCHANGED notCT

InitCT ==
    /\ CTAlone
    /\ ct = NoCT

NextCT ==
    \/ ReconcileTunnel
    \/ PreCreate
    \/ CreateCR
    \/ DeleteCR
    \/ ToggleConnections

CTSpec == InitCT /\ [][NextCT]_vars

-----------------------------------------------------------------------------
(* internal/cloudflared/configmap.go: TunnelConfig and its ingress rules *)

MaxRules == 3

IngressRule(hostname, path, service) ==
    [Hostname |-> hostname, Path |-> path, Service |-> service]

\* the rules callers add: with and without hostname, path and service
RuleCases ==
    {IngressRule(h, p, s) : h \in {"", "app.ex.com"}, p \in {"", "/api"},
                            s \in {"", "http://svc:80"}}

\* the services SetCatchAll is called with
ServiceCases == {"", "http_status:503", "http://fallback:80"}

\* the ingress part of NewTunnelConfig: one catch-all rule, served by the
\* tunnel's fallback target or by http_status:404
NewTunnelConfig(fallbackTarget, tunnelID) ==
    [TunnelID |-> tunnelID,
     Ingress |-> <<IngressRule("", "", IF fallbackTarget = "" THEN "http_status:404"
                                       ELSE fallbackTarget)>>]

\* faulty variant: the rule is always appended at the end
AddRule_Append(ingress, rule) == Append(ingress, rule)

AddRule(ingress, rule) ==
    LET lastIdx == Len(ingress)
        catchAll == ingress[lastIdx]
    IN  IF Len(ingress) = 0 THEN Append(ingress, rule)
        ELSE IF catchAll.Hostname = "" /\ catchAll.Path = ""
        THEN SubSeq(ingress, 1, lastIdx - 1) \o <<rule, catchAll>>
        ELSE Append(ingress, rule)

SetCatchAll(ingress, service) ==
    LET lastIdx == Len(ingress)
        kept == IF /\ Len(ingress) > 0
                   /\ ingress[lastIdx].Hostname = "" /\ ingress[lastIdx].Path = ""
                THEN SubSeq(ingress, 1, lastIdx - 1)
                ELSE ingress
    IN  Append(kept, IngressRule("", "", service))

\* Validate: the text of the error, "" for nil
Validate(c) ==
    IF c.TunnelID = "" THEN "tunnel ID is required"
    ELSE IF Len(c.Ingress) = 0 THEN "at least one ingress rule is required"
    ELSE IF c.Ingress[Len(c.Ingress)].Hostname # "" \/ c.Ingress[Len(c.Ingress)].Path # ""
    THEN "last ingress rule must be a catch-all (no hostname or path)"
    ELSE IF \E i \in 1..Len(c.Ingress) : c.Ingress[i].Service = ""
    THEN "service is required"
    ELSE ""

CallAddRule ==
    /\ Len(tc.Ingress) < MaxRules
    /\ \E rule \in RuleCases : tc' = [tc EXCEPT !.Ingress = AddRule(@, rule)]
    /\ UNCHANGED notTC

\* replaced remembers that the catch-all no longer is the one of NewTunnelConfig
CallSetCatchAll ==
    /\ \E service \in ServiceCases :
         tc' = [tc EXCEPT !.Ingress = SetCatchAll(@, service), !.replaced = TRUE]
    /\ UNCHANGED notTC

InitTC ==
    /\ TCAlone
    /\ \E fallbackTarget \in {"", "http://fallback:80"}, tunnelID \in {"", "tid"} :
          \E c \in {NewTunnelConfig(fallbackTarget, tunnelID)} :
             tc = [TunnelID |-> c.TunnelID, Ingress |-> c.Ingress,
                   fallback |-> fallbackTarget, replaced |-> FALSE]

NextTC ==
    \/ CallAddRule
    \/ CallSetCatchAll

TCSpec == InitTC /\ [][NextTC]_vars

-----------------------------------------------------------------------------
(* updateStatus on statuses that carry their times *)

MaxClock == 3
MaxStatusEdits == 3

\* the status of a new object: no lastSyncTime (0), no conditions
ZeroStatus ==
    [Records |-> <<>>, SyncedRecords |-> 0, PendingRecords |-> 0,
     FailedRecords |-> 0, ObservedGeneration |-> 0, LastSyncTime |-> 0,
     Conditions |-> <<>>]

\* a metav1.Condition as setCondition builds it
Condition(conditionType, condStatus, reason, message, time, generation) ==
    [Type |-> conditionType, Status |-> condStatus, Reason |-> reason,
     Message |-> message, LastTransitionTime |-> time,
     ObservedGeneration |-> generation]

\* the statuses one assignment away from s at time now
StatusEdits(s, now) ==
    LET cs == s.Conditions
        one == SyncedEntry(HostA, [BuildCNAMERecord(HostA, TunnelDomain, TRUE,
                                                   ManagedComment(TunnelName))
                                   EXCEPT !.id = 1])
    IN  {[s EXCEPT !.LastSyncTime = now]}
        \cup {[s EXCEPT !.ObservedGeneration = 1 - @]}
        \cup {[s EXCEPT !.SyncedRecords = 1 - @], [s EXCEPT !.PendingRecords = 1 - @],
              [s EXCEPT !.FailedRecords = 1 - @]}
        \cup {[s EXCEPT !.Records = IF @ = <<>> THEN <<one>> ELSE <<>>]}
        \cup (IF cs # <<>> THEN {}
              ELSE {[s EXCEPT !.Conditions =
                        <<Condition(ConditionTypeReady, "False", "TunnelNotReady",
                                    "Referenced tunnel is not ready", now, 1)>>]})
        \cup {[s EXCEPT !.Conditions[i].Status = "True"] : i \in 1..Len(cs)}
        \cup {[s EXCEPT !.Conditions[i].Reason = "Ready"] : i \in 1..Len(cs)}
        \cup {[s EXCEPT !.Conditions[i].Message = "DNS sync is operational"] :
                  i \in 1..Len(cs)}
        \cup {[s EXCEPT !.Conditions[i].Type = ConditionTypeDNSSynced] :
                  i \in 1..Len(cs)}
        \cup {[s EXCEPT !.Conditions[i].LastTransitionTime = now] : i \in 1..Len(cs)}
        \cup {[s EXCEPT !.Conditions[i].ObservedGeneration = 2] : i \in 1..Len(cs)}

\* Reconcile fetches the object: its copy starts as the stored status
FetchStatus ==
    /\ us.now < MaxClock
    /\ us' = [us EXCEPT !.mem = us.stored, !.now = @ + 1, !.last = "none"]
    /\ UNCHANGED notUS

\* Reconcile assigns to a field of its copy
EditStatus ==
    \E e \in StatusEdits(us.mem, us.now) :
        /\ us.edits > 0
        /\ e # us.mem
        /\ us' = [us EXCEPT !.mem = e, !.edits = @ - 1, !.last = "none"]
        /\ UNCHANGED notUS

CallUpdateStatus ==
    \E clusterOk \in BOOLEAN :
        \E out \in {updateStatus(us.stored, us.mem, clusterOk)} :
            /\ us.last = "none"
            /\ ~clusterOk => out.err
            /\ us' = [us EXCEPT !.stored = out.status,
                                !.last = IF ~out.update THEN "skipped"
                                         ELSE IF out.err THEN "failed"
                                         ELSE "written"]
            /\ UNCHANGED notUS

InitUS ==
    /\ us = [stored |-> ZeroStatus, mem |-> ZeroStatus, now |-> 1,
             edits |-> MaxStatusEdits, last |-> "none"]
    /\ USAlone

NextUS ==
    \/ FetchStatus
    \/ EditStatus
    \/ CallUpdateStatus

USSpec == InitUS /\ [][NextUS]_vars

-----------------------------------------------------------------------------
(* collectHostnamesFromRoutes over the Gateways and HTTPRoutes of the      *)
(* cluster                                                                 *)

MaxGateways == 2
MaxHTTPRoutes == 2
MaxParentRefs == 2

TunnelNamespace == "infra"
AppNamespace == "apps"

\* fmt.Sprintf("%s/%s", tunnel.Namespace, tunnel.Name)
TunnelRefOf(namespace, name) == <<namespace, "/">> \o name

\* an annotation key that is not set
Absent == <<>>

FilterKey == "cfgate.io/dns"

Gateway(namespace, tunnelRef, dnsSync) ==
    [Name |-> "gw", Namespace |-> namespace,
     Annotations |-> [tunnelRef |-> tunnelRef, dnsSync |-> dnsSync]]

\* the Gateways a user may create
GatewayObjects ==
    {Gateway(TunnelNamespace, TunnelRefOf(TunnelNamespace, TunnelName), <<"enabled">>),
     Gateway(TunnelNamespace, TunnelRefOf(TunnelNamespace, TunnelName), <<"disabled">>),
     Gateway(TunnelNamespace, TunnelRefOf(AppNamespace, TunnelName), <<"enabled">>),
     Gateway(TunnelNamespace, Absent, Absent),
     Gateway(AppNamespace, TunnelRefOf(TunnelNamespace, TunnelName), <<"enabled">>)}

\* the parentRefs a route may carry
ParentRefObjects ==
    {[Name |-> "gw", Namespace |-> Nil],
     [Name |-> "gw", Namespace |-> Ptr(AppNamespace)],
     [Name |-> "other", Namespace |-> Nil]}

\* faulty variant: a parentRef without namespace matches no Gateway
parentRefMatches_NoDefault(parentRef, route, g) ==
    /\ parentRef.Namespace # Nil
    /\ parentRef.Name = g.Name /\ parentRef.Namespace[1] = g.Namespace

\* the parentRef names the Gateway; its namespace defaults to the route's
parentRefMatches(parentRef, route, g) ==
    LET parentNS == IF parentRef.Namespace # Nil THEN parentRef.Namespace[1]
                    ELSE route.Namespace
    IN  parentRef.Name = g.Name /\ parentNS = g.Namespace

\* the loop over route.Spec.ParentRefs: the route's hostnames once per match
RECURSIVE parentRefHostnames(_, _, _)
parentRefHostnames(parentRefs, route, g) ==
    IF parentRefs = <<>> THEN <<>>
    ELSE (IF parentRefMatches(Head(parentRefs), route, g) THEN route.Hostnames
          ELSE <<>>)
         \o parentRefHostnames(Tail(parentRefs), route, g)

\* the loop over routes.Items for one relevant Gateway
RECURSIVE gatewayHostnames(_, _, _)
gatewayHostnames(items, annotationFilter, g) ==
    IF items = <<>> THEN <<>>
    ELSE LET route == Head(items)
         IN  (IF annotationFilter # "" /\ annotationFilter \notin route.Annotations
              THEN <<>>
              ELSE parentRefHostnames(route.ParentRefs, route, g))
             \o gatewayHostnames(Tail(items), annotationFilter, g)

relevantGateways(gateways, tunnelRef) ==
    SelectSeq(gateways, LAMBDA g :
        /\ g.Annotations.tunnelRef # Absent /\ g.Annotations.tunnelRef = tunnelRef
        /\ g.Annotations.dnsSync # Absent /\ g.Annotations.dnsSync = <<"enabled">>)

RECURSIVE eachGateway(_, _, _)
eachGateway(relevant, items, annotationFilter) ==
    IF relevant = <<>> THEN <<>>
    ELSE gatewayHostnames(items, annotationFilter, Head(relevant))
         \o eachGateway(Tail(relevant), items, annotationFilter)

\* collectHostnamesFromRoutes, from the listed objects
listHostnamesFromRoutes(gateways, items, annotationFilter, tunnelNamespace, tunnelName) ==
    eachGateway(relevantGateways(gateways, TunnelRefOf(tunnelNamespace, tunnelName)),
                items, annotationFilter)

\* a user creates a Gateway
AddGateway ==
    \E g \in GatewayObjects :
        /\ Len(gw.gateways) < MaxGateways
        /\ gw' = [gw EXCEPT !.gateways = Append(@, g), !.hostnames = <<>>,
                            !.collected = FALSE]
        /\ UNCHANGED notGW

\* a user creates an HTTPRoute: the first declares HostA, the next HostA and HostB
AddHTTPRoute ==
    \E namespace \in {TunnelNamespace, AppNamespace}, annotated \in BOOLEAN,
       n \in 0..MaxParentRefs :
        \E parentRefs \in [1..n -> ParentRefObjects] :
            /\ Len(gw.routes) < MaxHTTPRoutes
            /\ gw' = [gw EXCEPT
                         !.routes = Append(@,
                            [Namespace |-> namespace,
                             Annotations |-> IF annotated THEN {FilterKey} ELSE {},
                             ParentRefs |-> parentRefs,
                             Hostnames |-> IF gw.routes = <<>> THEN <<HostA>>
                                           ELSE <<HostA, HostB>>]),
                         !.hostnames = <<>>, !.collected = FALSE]
            /\ UNCHANGED notGW

\* collectHostnames of a DNSSync with gatewayRoutes enabled and no explicit
\* hostnames: the route hostnames, deduplicated
CollectHostnames ==
    /\ ~gw.collected
    /\ gw' = [gw EXCEPT
                 !.hostnames = Dedup(listHostnamesFromRoutes(gw.gateways, gw.routes,
                                        gw.filter, TunnelNamespace, TunnelName), {}),
                 !.collected = TRUE]
    /\ UNCHANGED notGW

InitGW ==
    /\ GWAlone
    /\ \E annotationFilter \in {"", FilterKey} :
          gw = [NoGW EXCEPT !.filter = annotationFilter]

NextGW ==
    \/ AddGateway
    \/ AddHTTPRoute
    \/ CollectHostnames

GWSpec == InitGW /\ [][NextGW]_vars

-----------------------------------------------------------------------------
(* Properties *)

HasMarker(comment) == Contains(comment, Marker)

Desired == collectHostnames(sync.spec, routes)

OwnedAt(recs, name, type) ==
    \E i \in 1..Len(recs) :
        recs[i].name = name /\ recs[i].type = type /\ HasMarker(recs[i].comment)

SyncedCount(status) ==
    Cardinality({k \in 1..Len(status.Records) : status.Records[k].Status = "Synced"})

\* the pass just taken was a deletion pass that held the finalizer
DeletePass == last.kind = "delete" /\ last.cleanup # "none"

\* C11: status.observedGeneration changes only in a reconciliation that went
\* through tunnel resolution, zone resolution and record sync and stored its
\* status, and then equals the generation that reconciliation read; a spec
\* edit raises the generation and leaves observedGeneration alone.  So
\* observedGeneration never exceeds the generation, and equals it only after
\* a completed reconciliation of that generation.
C11_ObservedGeneration ==
    [][sync'.exists =>
         /\ sync'.status.ObservedGeneration # sync.status.ObservedGeneration
               => /\ last'.kind = "synced"
                  /\ sync'.status.ObservedGeneration = sync.generation
                  /\ sync'.generation = sync.generation
         /\ sync'.generation # sync.generation
               => /\ sync'.generation > sync.generation
                  /\ sync'.status.ObservedGeneration = sync.status.ObservedGeneration
         /\ sync'.status.ObservedGeneration <= sync'.generation]_vars

C11_Witness ==
    /\ last.kind \in {"zonesfailed", "tunnelmissing", "notready"}
    /\ sync.exists /\ sync.generation = 2
    /\ sync.status.ObservedGeneration = 1
    /\ Len(sync.status.Conditions) > 0

\* C1: no reconciliation issues an update or a delete against an existing
\* external record whose comment lacks the marker `managed by cfgate`.
C1_NeverWritesUnmarked ==
    \A i \in 1..Len(last.log) :
        (last.log[i].op \in {"update", "delete"} /\ last.log[i].found)
            => HasMarker(last.log[i].comment)

\* C2: a foreign CNAME (no marker) survives every reconciliation unchanged,
\* whether its hostname is desired, was just dropped, or the DNSSync is being
\* deleted; and a sync pass without API errors that finds it at a desired
\* hostname records that hostname as Synced with the foreign content as target.
C2_ForeignCNAMEUntouched ==
    [][last'.kind # "env" =>
         \A i \in 1..Len(records) :
            (records[i].type = "CNAME" /\ ~HasMarker(records[i].comment)) =>
               /\ \E j \in 1..Len(records') : records'[j] = records[i]
               /\ (/\ last'.kind = "synced" /\ ~last'.apiErr
                   /\ \E k \in 1..Len(Desired) : Desired[k] = records[i].name)
                  => \E k \in 1..Len(sync'.status.Records) :
                        LET e == sync'.status.Records[k]
                        IN  /\ e.Hostname = records[i].name
                            /\ e.Status = "Synced"
                            /\ e.Target = records[i].content
                            /\ e.RecordID = records[i].id]_vars

C2_Witness ==
    /\ last.kind = "synced"
    /\ \E i \in 1..Len(records) :
          /\ records[i].type = "CNAME" /\ records[i].name = HostA
          /\ records[i].comment = ForeignComment
          /\ records[i].content = ForeignContent
          /\ records[i].proxied = FALSE /\ records[i].ttl = ForeignTTL
          /\ \E k \in 1..Len(sync.status.Records) :
                /\ sync.status.Records[k].Hostname = HostA
                /\ sync.status.Records[k].Status = "Synced"
                /\ sync.status.Records[k].Target = ForeignContent
                /\ sync.status.Records[k].RecordID = records[i].id

\* C3: every record the operator creates carries the marker in its comment
\* right after creation, so that IsOwnedByCfgate recognises it.
C3_CreatedCarryMarker ==
    \A i \in 1..Len(last.log) :
        (last.log[i].op = "create" /\ last.log[i].id # 0) =>
            \E j \in 1..Len(records) :
                /\ records[j].id = last.log[i].id
                /\ IsOwnedByCfgate(records[j], <<>>, <<>>)

\* C4: a reconciliation that directly follows a completed sync pass in which
\* no API call failed, with nothing changed in between, issues no external
\* write: no create, update or delete, for the CNAME or the companion TXT.
C4_SecondPassWritesNothing ==
    [][(last.kind = "synced" /\ ~last.apiErr /\ last'.kind # "env")
           => last'.log = <<>>]_vars

C4_Witness ==
    /\ last.kind = "synced" /\ ~last.apiErr /\ last.log = <<>>
    /\ sync.spec.txtEnabled
    /\ \E i \in 1..Len(records) :
          /\ records[i].type = "CNAME" /\ records[i].name = HostA
          /\ records[i].comment = ManagedComment(TunnelName)
    /\ \E i \in 1..Len(records) :
          /\ records[i].type = "TXT"
          /\ records[i].name = defaultOwnershipPrefix \o HostA
          /\ records[i].content = ManagedComment(TunnelName)
    /\ Len(sync.status.Records) = 1

\* C5 as stated: the finalizer is removed only when cleanup was bypassed by
\* policy or the external cleanup succeeded.
C5_RemovedOnlyAfterCleanup ==
    [][(sync.finalizer /\ ~sync'.finalizer) =>
          \/ last'.cleanup = "skipped"
          \/ last'.cleanup = "ok" /\ ~last'.apiErr]_vars

\* C5 amended: the finalizer is removed only by a deletion pass, which either
\* bypassed cleanup by policy (and wrote nothing) or attempted it; an attempt
\* that could build no client wrote nothing and emitted DNSCleanupFailed.
C5_RemovedOnlyAfterAttempt ==
    [][(sync.finalizer /\ ~sync'.finalizer) =>
          /\ sync.deleting /\ last'.kind = "delete"
          /\ ~sync.spec.deleteOnResourceRemoval
                => last'.cleanup = "skipped" /\ last'.log = <<>>
          /\ sync.spec.deleteOnResourceRemoval
                => \/ last'.cleanup = "ok" /\ last'.client # "none"
                   \/ /\ last'.cleanup = "failed"
                      /\ "DNSCleanupFailed" \in last'.events
                      /\ last'.log = <<>>]_vars

C5_Witness ==
    /\ DeletePass /\ ~sync.exists /\ ~sync.finalizer
    /\ sync.spec.deleteOnResourceRemoval
    /\ last.cleanup = "failed" /\ "DNSCleanupFailed" \in last.events
    /\ \E i \in 1..Len(records) : HasMarker(records[i].comment)

\* C6: cleanup never blocks the removal of the finalizer: every deletion pass
\* over an object that holds its finalizer removes it and ends without error,
\* whatever became of the cleanup, unless the finalizer patch itself fails.
\* The work queue retries a failed pass, so the removal eventually happens.
C6_CleanupNeverBlocks ==
    [][(/\ sync.exists /\ sync.deleting /\ sync.finalizer
        /\ last'.kind = "delete" /\ ~last'.clusterErr)
           => ~sync'.finalizer /\ last'.result = "done"]_vars

C6_Witness ==
    /\ DeletePass /\ ~sync.finalizer /\ last.result = "done"
    /\ last.cleanup = "ok" /\ last.apiErr
    /\ \E i \in 1..Len(records) :
          IsOwnedByCfgate(records[i], <<>>, TunnelName)

\* C7: deleting a DNSSync that sets the fallback reference, once the tunnel or
\* its secret is gone, builds the client from the fallback secret, reports no
\* cleanup failure, and (no API call failing) leaves no record carrying the
\* ownership marker in the zone.
C7_FallbackCleanup ==
    (/\ DeletePass
     /\ sync.spec.deleteOnResourceRemoval
     /\ sync.spec.fallbackRef /\ secrets.fallback = "ok"
     /\ (tunnel = "missing" \/ secrets.tunnel = "missing"))
    => /\ last.client = "fallback"
       /\ last.cleanup = "ok"
       /\ "DNSCleanupFailed" \notin last.events
       /\ ~last.apiErr => \A i \in 1..Len(records) : ~HasMarker(records[i].comment)

C7_Witness ==
    /\ DeletePass /\ last.client = "fallback" /\ ~last.apiErr
    /\ sync.spec.fallbackRef
    /\ tunnel = "missing" \/ secrets.tunnel = "missing"
    /\ \E i \in 1..Len(last.log) :
          /\ last.log[i].op = "delete" /\ last.log[i].found
          /\ last.log[i].type = "CNAME"
          /\ HasMarker(last.log[i].comment)
    /\ \A i \in 1..Len(records) : ~HasMarker(records[i].comment)

\* the case of C8: cleanup enabled, tunnel missing, no fallback reference
NoTunnelNoFallback ==
    /\ DeletePass
    /\ sync.spec.deleteOnResourceRemoval
    /\ tunnel = "missing"
    /\ ~sync.spec.fallbackRef

\* C8 as stated: such a deletion pass ends in an error or a requeue and the
\* finalizer is still present.
C8_DeletionFailsAndRetries ==
    NoTunnelNoFallback =>
        /\ last.result \in {"error", "requeue", "requeueAfter"}
        /\ sync.exists /\ sync.finalizer

\* C8 amended: such a deletion pass builds no client, writes nothing, emits
\* DNSCleanupFailed and goes on to remove the finalizer: the deletion
\* completes, and the pass errs only when the finalizer patch itself fails.
C8_DeletionCompletesWithEvent ==
    NoTunnelNoFallback =>
        /\ last.cleanup = "failed" /\ last.client = "none"
        /\ "DNSCleanupFailed" \in last.events
        /\ last.log = <<>>
        /\ IF last.clusterErr
           THEN last.result = "error" /\ sync.exists /\ sync.finalizer
           ELSE last.result = "done" /\ ~sync.exists /\ ~sync.finalizer

C8_Witness ==
    /\ NoTunnelNoFallback
    /\ last.result = "done" /\ ~last.clusterErr
    /\ ~sync.exists /\ ~sync.finalizer
    /\ "DNSCleanupFailed" \in last.events

\* C9: with nobody else writing to the zone, a deletion under the default
\* cleanup policy whose cleanup ran with a working client and no failed API
\* call leaves none of the records the operator created.
C9_RoundTrip ==
    (/\ DeletePass
     /\ sync.spec.deleteOnResourceRemoval /\ sync.spec.onlyManaged
     /\ last.cleanup = "ok" /\ ~last.apiErr
     /\ budget.drift = MaxDrift)
    => records = <<>>

IsOrphan(e) ==
    /\ e.RecordID # 0
    /\ ~\E k \in 1..Len(Desired) : Desired[k] = e.Hostname

OrphanGone(e) ==
    /\ ~OwnedAt(records', e.Hostname, e.Type)
    /\ (sync.spec.txtEnabled /\ OwnedAt(records, e.Hostname, e.Type))
          => ~\E i \in 1..Len(records') :
                 /\ records'[i].type = "TXT"
                 /\ records'[i].name = ownershipPrefixOf(sync.spec) \o e.Hostname
    /\ ~\E k \in 1..Len(sync'.status.Records) :
           sync'.status.Records[k].Hostname = e.Hostname
    /\ sync'.status.SyncedRecords = SyncedCount(sync'.status)

\* C10: a completed sync pass in which no fault was injected removes, for every
\* entry of the previous status that has a record id and whose hostname is no
\* longer desired, the owned record and (TXT ownership enabled) its companion
\* TXT record, drops the entry from status and counts syncedRecords anew.
C10_OrphanDeleted ==
    [][(last'.kind = "synced" /\ budget'.faults = budget.faults) =>
          \A k \in 1..Len(sync.status.Records) :
              IsOrphan(sync.status.Records[k]) => OrphanGone(sync.status.Records[k])]_vars

\* the record the reconciler wants at hostname h
IsDesiredRecord(r, h) ==
    /\ r.name = h
    /\ r.type = "CNAME"
    /\ r.content = TunnelDomain
    /\ r.proxied = sync.spec.proxied
    /\ r.ttl = AutoTTL
    /\ r.comment = ManagedComment(TunnelName)

\* no CNAME at h, or only CNAMEs that carry the marker
AbsentOrOwned(recs, h) ==
    \A i \in 1..Len(recs) :
        (recs[i].name = h /\ recs[i].type = "CNAME") => HasMarker(recs[i].comment)

\* C21: after a completed sync pass, every hostname whose SyncRecord succeeded
\* (status entry Synced) and whose CNAME was absent or owned before the pass
\* has exactly the desired record: type CNAME, content the tunnel domain,
\* proxied per the defaults, TTL 1 and the comment
\* `managed by cfgate, tunnel=<tunnel-name>`; the status entry names it.
C21_DesiredStateHolds ==
    [][last'.kind = "synced" =>
         \A k \in 1..Len(sync'.status.Records) :
            LET e == sync'.status.Records[k]
            IN  (e.Status = "Synced" /\ AbsentOrOwned(records, e.Hostname)) =>
                   \E i \in 1..Len(records') :
                      /\ IsDesiredRecord(records'[i], e.Hostname)
                      /\ e.RecordID = records'[i].id
                      /\ e.Target = TunnelDomain
                      /\ e.Proxied = sync.spec.proxied]_vars

\* an owned CNAME that differed from the desired state was updated to it
C21_Witness ==
    /\ last.kind = "synced"
    /\ \E j \in 1..Len(last.log) :
          /\ last.log[j].op = "update" /\ last.log[j].found
          /\ last.log[j].type = "CNAME" /\ last.log[j].name = HostA
    /\ \E i \in 1..Len(records) : IsDesiredRecord(records[i], HostA)

\* what an explicit entry asks for: its target with the template expanded,
\* its TTL with "auto" read as 1
ExpandTarget(target) ==
    IF target = TunnelDomainTemplate THEN TunnelDomain ELSE target

ExplicitTTL(ttl) == IF ttl = "auto" THEN AutoTTL ELSE 120

\* C22: after a completed sync pass without API error, the CNAME of every
\* hostname of the explicit list has that entry's own target (template
\* expanded), that entry's own proxied flag and that entry's own TTL.
C22_ExplicitOverrides ==
    (last.kind = "synced" /\ ~last.apiErr) =>
        \A k \in 1..Len(sync.spec.explicit) :
            LET x == sync.spec.explicit[k]
            IN  \E i \in 1..Len(records) :
                   /\ records[i].name = x.Hostname
                   /\ records[i].type = "CNAME"
                   /\ records[i].content = ExpandTarget(x.Target)
                   /\ records[i].proxied = x.Proxied
                   /\ records[i].ttl = ExplicitTTL(x.TTL)

\* the hostname lies in the zone: the zone's labels end the hostname
InZone(hostname, zoneName) ==
    /\ Len(zoneName) < Len(hostname)
    /\ SubSeq(hostname, Len(hostname) - Len(zoneName) + 1, Len(hostname)) = zoneName

\* C23: after a completed sync pass without API error, every desired hostname
\* that lies in a zone configured with an explicit zone id, multi-label
\* suffix or not, has a Synced entry in status rather than a Failed one.
C23_ExplicitZoneID ==
    (last.kind = "synced" /\ ~last.apiErr) =>
        \A k \in 1..Len(Desired) :
            (\E z \in 1..Len(sync.spec.zones) :
                /\ sync.spec.zones[z].ID # ""
                /\ InZone(Desired[k], sync.spec.zones[z].Name))
            => \E e \in 1..Len(sync.status.Records) :
                  /\ sync.status.Records[e].Hostname = Desired[k]
                  /\ sync.status.Records[e].Status = "Synced"

\* the lookup of some configured zone without a pre-resolved id fails, or
\* finds no zone
LookupFails(spec, fail) ==
    \E z \in 1..Len(spec.zones) :
        /\ spec.zones[z].ID = ""
        /\ ("zone" \in fail \/ GetZoneByName(spec.zones[z].Name) = "")

ConditionIs(status, conditionType, condStatus) ==
    \E i \in 1..Len(status.Conditions) :
        /\ status.Conditions[i].Type = conditionType
        /\ status.Conditions[i].Status = condStatus

\* the reconciliation of the current state under one fault
PassUnder(f) ==
    ReconcileOutcome(sync, [recs |-> records, next |-> nextID, log |-> <<>>,
                            errs |-> FALSE],
                     tunnel, secrets, routes, f.fail, f.clusterOk)

\* C24: whenever a reconciliation reaches zone resolution (finalizer in
\* place, tunnel ready, credentials present): if the lookup of a zone without
\* pre-resolved id fails or finds nothing, the pass stops there, issues no
\* record create, update or delete, and (the status write succeeding) stores
\* ZonesResolved=False; otherwise it goes on to sync, and every record it
\* creates in a zone configured with an id lies under exactly that id, even
\* while zone lookups are failing.
C24_ZoneFailureStopsSync ==
    (Settled /\ ~sync.deleting /\ secrets.tunnel = "ok") =>
        \A f \in Faults :
            \E out \in {PassUnder(f)} :
                IF LookupFails(sync.spec, f.fail)
                THEN /\ out.last.kind = "zonesfailed"
                     /\ out.last.log = <<>>
                     /\ out.api.recs = records
                     /\ ~out.last.clusterErr =>
                            ConditionIs(out.sync.status, ConditionTypeZonesResolved, "False")
                ELSE /\ out.last.kind \in {"synced", "statusfailed"}
                     /\ \A i \in 1..Len(out.api.recs) :
                           \A z \in 1..Len(sync.spec.zones) :
                              (/\ out.api.recs[i].id >= nextID
                               /\ sync.spec.zones[z].ID # ""
                               /\ InZone(out.api.recs[i].name, sync.spec.zones[z].Name))
                              => out.api.recs[i].zone = sync.spec.zones[z].ID

\* a pass stopped at a zone the account does not have, and stored the condition
C24_Witness ==
    /\ last.kind = "zonesfailed" /\ last.log = <<>>
    /\ ConditionIs(sync.status, ConditionTypeZonesResolved, "False")
    /\ LookupFails(sync.spec, {})
    /\ routes # {}

\* C25: a regular sync pass over a DNSSync whose cleanup policy sets
\* deleteOnRouteRemoval to false deletes no record.
C25_RouteRemovalPolicy ==
    [][(last'.kind \in {"synced", "statusfailed"} /\ ~sync.spec.deleteOnRouteRemoval)
          => \A i \in 1..Len(last'.log) : last'.log[i].op # "delete"]_vars

\* C26: a reconciliation that finds the DNSSync without its finalizer (and
\* not being deleted) does nothing but add it and requeue: no API call, no
\* status change; if the patch fails the pass returns the error and changes
\* nothing.  So every pass that issues a DNS write started from a state in
\* which the DNSSync already held its finalizer.
C26_FinalizerFirst ==
    [][last'.kind # "env" =>
         /\ (sync.exists /\ ~sync.deleting /\ ~sync.finalizer) =>
               /\ last'.kind = "addfinalizer"
               /\ last'.log = <<>> /\ records' = records
               /\ IF last'.clusterErr
                  THEN sync' = sync /\ last'.result = "error"
                  ELSE /\ sync' = [sync EXCEPT !.finalizer = TRUE]
                       /\ last'.result = "requeue"
         /\ last'.log # <<>> => sync.finalizer]_vars

\* the finalizer was added while the tunnel was ready and a hostname was
\* already desired, and nothing was written
C26_Witness ==
    /\ last.kind = "addfinalizer" /\ last.result = "requeue"
    /\ sync.finalizer /\ tunnel = "ready"
    /\ Len(Desired) > 0
    /\ records = <<>>

\* the name is a hostname of the desired set or of the stored status, or the
\* companion TXT name of such a hostname
Covered(name) ==
    \E h \in {Desired[k] : k \in 1..Len(Desired)}
               \cup {sync.status.Records[k].Hostname : k \in 1..Len(sync.status.Records)} :
        name = h \/ name = ownershipPrefixOf(sync.spec) \o h

\* C27: a reconciliation other than the deletion of the DNSSync leaves every
\* external record, owned or not, whose name is not covered by the desired
\* set or the previous status exactly as it was.
C27_OrphansUntouched ==
    [][(last'.kind # "env" /\ last'.kind # "delete") =>
          \A i \in 1..Len(records) :
              ~Covered(records[i].name) =>
                  \E j \in 1..Len(records') : records'[j] = records[i]]_vars

\* an owned CNAME whose hostname left the desired set before it ever reached
\* the status survived a completed sync pass
C27_Witness ==
    /\ last.kind = "synced" /\ ~last.apiErr
    /\ routes = {}
    /\ sync.status.Records = <<>>
    /\ \E i \in 1..Len(records) :
          /\ records[i].type = "CNAME" /\ records[i].name = HostA
          /\ IsOwnedByCfgate(records[i], <<>>, <<>>)

\* every desired hostname has its owned CNAME recorded in status, and no owned
\* CNAME is left at a hostname outside the desired set
Converged ==
    /\ \A k \in 1..Len(Desired) :
          \E i \in 1..Len(records), e \in 1..Len(sync.status.Records) :
             /\ IsDesiredRecord(records[i], Desired[k])
             /\ sync.status.Records[e].Hostname = Desired[k]
             /\ sync.status.Records[e].Status = "Synced"
             /\ sync.status.Records[e].RecordID = records[i].id
    /\ \A i \in 1..Len(records) :
          (records[i].type = "CNAME" /\ IsOwnedByCfgate(records[i], <<>>, <<>>))
             => \E k \in 1..Len(Desired) : Desired[k] = records[i].name

\* a completed pass in which no call failed and which found nothing to write:
\* the pass after it starts from the same state and does the same
Quiescent ==
    /\ last.kind = "synced" /\ ~last.apiErr /\ ~last.clusterErr
    /\ last.log = <<>>

\* C28: with nobody else writing to the zone, reconciliation after a failed
\* or interrupted pass comes to rest only in a converged state.  (Passes are
\* deterministic, so a quiescent state that is not converged never converges.)
C28_ConvergesAfterFailure ==
    (Quiescent /\ budget.drift = MaxDrift) => Converged

\* C29: ownership is read from the comment at every pass.  A CNAME whose
\* comment lacks the marker - never marked, or stripped by a user after the
\* operator created it - comes out of every reconciliation unchanged.  A
\* CNAME at a desired hostname whose comment carries the marker - written by
\* the operator, or added by a user to a foreign record - is, by a completed
\* sync pass whose SyncRecord succeeded, the desired record under the same id.
C29_MarkerDecidesOwnership ==
    [][last'.kind # "env" =>
         \A i \in 1..Len(records) :
            records[i].type = "CNAME" =>
               IF ~HasMarker(records[i].comment)
               THEN \E j \in 1..Len(records') : records'[j] = records[i]
               ELSE (/\ last'.kind = "synced"
                     /\ \E e \in 1..Len(sync'.status.Records) :
                           /\ sync'.status.Records[e].Hostname = records[i].name
                           /\ sync'.status.Records[e].Status = "Synced")
                    => \E j \in 1..Len(records') :
                          /\ records'[j].id = records[i].id
                          /\ IsDesiredRecord(records'[j], records[i].name)]_vars

\* a foreign record a user had marked was taken over by the sync
C29_Witness ==
    /\ last.kind = "synced"
    /\ budget.drift < MaxDrift /\ budget.edits < MaxEdits
    /\ \E j \in 1..Len(last.log) :
          /\ last.log[j].op = "update" /\ last.log[j].found
          /\ last.log[j].type = "CNAME"
          /\ last.log[j].comment = ForeignComment \o Marker
    /\ \E i \in 1..Len(records) : IsDesiredRecord(records[i], HostA)

\* a record the operator created, stripped of its marker by a user, stayed in
\* the zone through a pass that no longer wanted its hostname
C29_WitnessStripped ==
    /\ last.kind = "synced" /\ ~last.apiErr
    /\ budget.drift = MaxDrift /\ budget.edits < MaxEdits
    /\ routes = {}
    /\ \E i \in 1..Len(records) :
          /\ records[i].type = "CNAME" /\ records[i].name = HostA
          /\ records[i].content = TunnelDomain
          /\ records[i].comment = ForeignComment

\* what the claim lists as compared: observedGeneration, the three counts,
\* each condition's type, status, reason and message, and the record list
Compared(s) ==
    [og |-> s.ObservedGeneration,
     counts |-> <<s.SyncedRecords, s.PendingRecords, s.FailedRecords>>,
     conditions |-> [i \in 1..Len(s.Conditions) |->
                        <<s.Conditions[i].Type, s.Conditions[i].Status,
                          s.Conditions[i].Reason, s.Conditions[i].Message>>],
     records |-> s.Records]

UpdateStatusStep == us.last = "none" /\ us'.last # "none"

\* C30: updateStatus calls Status().Update exactly when the new status differs
\* from the stored one in observedGeneration, a count, a condition's type,
\* status, reason or message, or the record list; when the two differ in
\* lastSyncTime or transition times only, nothing is written and the stored
\* status, its old lastSyncTime included, stays.
C30_WritesOnlyRealChanges ==
    [][UpdateStatusStep =>
          IF Compared(us.mem) = Compared(us.stored)
          THEN us'.last = "skipped" /\ us'.stored = us.stored
          ELSE /\ us'.last \in {"written", "failed"}
               /\ us'.last = "written" => us'.stored = us.mem]_vars

\* a call skipped the write although lastSyncTime and a transition time differ
C30_Witness ==
    /\ us.last = "skipped"
    /\ us.mem.LastSyncTime # us.stored.LastSyncTime
    /\ Len(us.stored.Conditions) = 1 /\ Len(us.mem.Conditions) = 1
    /\ us.mem.Conditions[1].LastTransitionTime # us.stored.Conditions[1].LastTransitionTime

CountStatus(status, value) ==
    Cardinality({k \in 1..Len(status.Records) : status.Records[k].Status = value})

\* C31: the status a completed sync pass stores has one entry per desired
\* hostname, in order; syncedRecords and failedRecords count the entries with
\* status Synced and Failed; the three counts add up to the number of
\* desired hostnames.
C31_CountsMatchEntries ==
    last.kind = "synced" =>
        /\ [k \in 1..Len(sync.status.Records) |-> sync.status.Records[k].Hostname]
              = Desired
        /\ sync.status.SyncedRecords = CountStatus(sync.status, "Synced")
        /\ sync.status.FailedRecords = CountStatus(sync.status, "Failed")
        /\ sync.status.SyncedRecords + sync.status.PendingRecords
              + sync.status.FailedRecords = Len(Desired)

\* a pass with one hostname synced and one failed
C31_Witness ==
    /\ last.kind = "synced"
    /\ Len(Desired) = 2
    /\ sync.status.SyncedRecords = 1 /\ sync.status.FailedRecords = 1

\* C38: whenever a pass creates or updates the companion TXT record
\* `<prefix>.<hostname>`, the CNAME at that hostname is one the operator owns.
C38_TXTOnlyForOwned ==
    \A i \in 1..Len(last.log) :
        (last.log[i].type = "TXT" /\ last.log[i].op \in {"create", "update"}) =>
            \E h \in {Desired[k] : k \in 1..Len(Desired)} :
                /\ last.log[i].name = ownershipPrefixOf(sync.spec) \o h
                /\ OwnedAt(records, h, "CNAME")

\* C39: a completed pass (DNSSynced=True, Ready=True, observedGeneration
\* advanced to the generation) has no failed hostname: failedRecords is 0 and
\* no status entry is Failed.
C39_ReadyMeansAllSynced ==
    (/\ last.kind = "synced"
     /\ ConditionIs(sync.status, ConditionTypeDNSSynced, "True")
     /\ ConditionIs(sync.status, ConditionTypeReady, "True")
     /\ sync.status.ObservedGeneration = sync.generation)
    => /\ sync.status.FailedRecords = 0
       /\ CountStatus(sync.status, "Failed") = 0

\* the stored status lists h as Synced: an earlier pass found or wrote its record
SyncedBefore(h) ==
    \E k \in 1..Len(sync.status.Records) :
        /\ sync.status.Records[k].Hostname = h
        /\ sync.status.Records[k].Status = "Synced"

\* C40: every reconciliation of an object that exists and is not being deleted
\* returns a result that schedules another one (Requeue, RequeueAfter or an
\* error), and a pass that completes without an API failure leaves the desired
\* record at every desired hostname that an earlier pass had synced and whose
\* CNAME is now absent or still owned: a record deleted or pointed elsewhere
\* by someone else is restored by the pass the previous one scheduled.
C40_RequeuesAndRepairs ==
    [][(last'.kind # "env" /\ sync.exists /\ ~sync.deleting) =>
          /\ last'.result \in {"requeue", "requeueAfter", "error"}
          /\ (last'.kind = "synced" /\ ~last'.apiErr) =>
                \A k \in 1..Len(Desired) :
                    (SyncedBefore(Desired[k]) /\ AbsentOrOwned(records, Desired[k])) =>
                        \E i \in 1..Len(records') :
                            IsDesiredRecord(records'[i], Desired[k])]_vars

\* a requeued pass found its own record pointing elsewhere and put it back
C40_Witness ==
    /\ last.kind = "synced" /\ last.result = "requeueAfter"
    /\ budget.edits < MaxEdits
    /\ \E j \in 1..Len(last.log) :
          /\ last.log[j].op = "update" /\ last.log[j].type = "CNAME"
          /\ last.log[j].comment = ManagedComment(TunnelName)
          /\ \E i \in 1..Len(records) :
                /\ records[i].id = last.log[j].id
                /\ IsDesiredRecord(records[i], last.log[j].name)

\* a requeued pass found its record gone and created it again
C40_WitnessDeleted ==
    /\ last.kind = "synced" /\ last.result = "requeueAfter"
    /\ budget.drift < MaxDrift
    /\ \E j \in 1..Len(last.log) :
          /\ last.log[j].op = "create" /\ last.log[j].type = "CNAME"
          /\ last.log[j].id > 1

\* the comment is the one the DNSSync of another tunnel writes
NamesOtherTunnel(comment) == \E t \in OtherTunnels : comment = ManagedComment(t)

\* C35: a sync pass (regular sync and orphan deletion) never updates or
\* deletes a record whose ownership comment names another tunnel.
C35_OtherTunnelUntouched ==
    \A j \in 1..Len(last.log) :
        (/\ last.kind # "delete"
         /\ last.log[j].op \in {"update", "delete"}
         /\ last.log[j].found)
        => ~NamesOtherTunnel(last.log[j].comment)

\* C37: the cleanup of a deleted DNSSync with onlyManaged set deletes only
\* records whose ownership comment names exactly its own tunnel.
C37_CleanupExactTunnel ==
    \A j \in 1..Len(last.log) :
        (/\ last.kind = "delete" /\ sync.spec.onlyManaged
         /\ last.log[j].op = "delete"
         /\ last.log[j].found)
        => last.log[j].comment = ManagedComment(TunnelName)

\* the two cases of C37 apart: the tunnel still resolves (a record of "t10"
\* must stay), the tunnel is gone and the fallback credentials are used
C37_ResolvedTunnelCase ==
    (last.kind = "delete" /\ last.client = "tunnel") => C37_CleanupExactTunnel

C37_FallbackCase ==
    (last.kind = "delete" /\ last.client = "fallback") => C37_CleanupExactTunnel

\* the second object's desired hostnames and what its stored status lists
PeerDesired == collectHostnames(peer.sync.spec, peer.routes)

PeerSyncedBefore(h) ==
    \E k \in 1..Len(peer.sync.status.Records) :
        /\ peer.sync.status.Records[k].Hostname = h
        /\ peer.sync.status.Records[k].Status = "Synced"

\* both objects declare h and each has synced it in an earlier pass
BothSynced(h) ==
    /\ \E k \in 1..Len(Desired) : Desired[k] = h
    /\ \E k \in 1..Len(PeerDesired) : PeerDesired[k] = h
    /\ SyncedBefore(h) /\ PeerSyncedBefore(h)

CNAMEsAt(recs, h) == {i \in 1..Len(recs) : recs[i].name = h /\ recs[i].type = "CNAME"}

\* the pass just taken, by either object, made an API write for hostname h
PassWrote(h) ==
    LET log == IF last'.kind = "peer" THEN peer'.last.log ELSE last'.log
    IN  \E j \in 1..Len(log) : log[j].name = h

\* the record at h is the one both objects ask for
PeerWants(r, h) ==
    /\ IsDesiredRecord([r EXCEPT !.proxied = sync.spec.proxied], h)
    /\ r.proxied = peer.sync.spec.proxied

BothWant(recs, h) ==
    \E i \in 1..Len(recs) : IsDesiredRecord(recs[i], h) /\ PeerWants(recs[i], h)

Shared(h) ==
    /\ \E k \in 1..Len(Desired) : Desired[k] = h
    /\ \E k \in 1..Len(PeerDesired) : PeerDesired[k] = h

\* the single CNAME at h points at the tunnel
PointsAtTunnel(recs, h) ==
    /\ Cardinality(CNAMEsAt(recs, h)) = 1
    /\ \A i \in CNAMEsAt(recs, h) : recs[i].content = TunnelDomain

\* the pass just taken ran to the end without an API failure
PassCompleted ==
    IF last'.kind = "peer" THEN peer'.last.kind = "synced"
    ELSE last'.kind = "synced" /\ ~last'.apiErr

\* C32 as stated: a hostname both objects declare never has two CNAMEs, and
\* once both have synced it and its single CNAME points at the tunnel, no
\* later pass of either writes to it.
C32_NoFurtherWrites ==
    [][\A h \in budget.hosts :
          Shared(h) =>
              /\ Cardinality(CNAMEsAt(records', h)) <= 1
              /\ (/\ last'.kind # "env" /\ BothSynced(h)
                  /\ PointsAtTunnel(records, h)) => ~PassWrote(h)]_vars

\* C32 with the condition it needs: the two objects ask for the same record
\* (same defaults.proxied).  Then a hostname both declare never has two
\* CNAMEs, every completed pass of either leaves the one record both want,
\* and a pass that finds that record, or finds both objects synced and the
\* CNAME pointing at the tunnel, writes nothing.
C32_SameSettingsConverge ==
    [][\A h \in budget.hosts :
          (Shared(h) /\ sync.spec.proxied = peer.sync.spec.proxied) =>
              /\ Cardinality(CNAMEsAt(records', h)) <= 1
              /\ (last'.kind # "env" /\ PassCompleted) => BothWant(records', h)
              /\ (last'.kind # "env" /\ BothWant(records, h)) =>
                    ~PassWrote(h) /\ BothWant(records', h)
              /\ (/\ last'.kind # "env" /\ BothSynced(h)
                  /\ PointsAtTunnel(records, h)) => ~PassWrote(h)]_vars

\* both objects have synced HostA, the second without a write, and the record
\* is the one the first created
C32_Witness ==
    /\ last.kind = "peer" /\ peer.last.kind = "synced" /\ peer.last.log = <<>>
    /\ BothSynced(HostA)
    /\ sync.spec.proxied = peer.sync.spec.proxied
    /\ \E i \in 1..Len(records) : IsDesiredRecord(records[i], HostA)

\* C36: the orphan deletion of one object never deletes the CNAME of a
\* hostname the other object still declares.
C36_OrphanKeepsPeerRecord ==
    \A j \in 1..Len(last.log) :
        (/\ last.kind = "synced"
         /\ last.log[j].op = "delete" /\ last.log[j].type = "CNAME"
         /\ last.log[j].found)
        => ~\E k \in 1..Len(PeerDesired) : PeerDesired[k] = last.log[j].name

\* the route has a parentRef that points, by name and namespace (the route's
\* own when the parentRef gives none), at a Gateway annotated with the tunnel
\* and with dns-sync enabled, and carries the filter annotation if one is set
RouteQualifies(route) ==
    /\ gw.filter # "" => gw.filter \in route.Annotations
    /\ \E i \in 1..Len(route.ParentRefs), j \in 1..Len(gw.gateways) :
          LET p == route.ParentRefs[i]
              g == gw.gateways[j]
          IN  /\ p.Name = g.Name
              /\ g.Namespace = (IF p.Namespace = Nil THEN route.Namespace
                                ELSE p.Namespace[1])
              /\ g.Annotations.tunnelRef = <<TunnelNamespace, "/">> \o TunnelName
              /\ g.Annotations.dnsSync = <<"enabled">>

\* C33: with gateway-routes enabled, a hostname is in the desired set exactly
\* when a route that declares it qualifies.
C33_RouteHostnamesCollected ==
    gw.collected =>
        \A h \in {HostA, HostB} :
            (\E k \in 1..Len(gw.hostnames) : gw.hostnames[k] = h)
            <=> \E r \in 1..Len(gw.routes) :
                    /\ \E k \in 1..Len(gw.routes[r].Hostnames) :
                          gw.routes[r].Hostnames[k] = h
                    /\ RouteQualifies(gw.routes[r])

\* two routes declare HostA; only the second qualifies, through a parentRef
\* without namespace, and brings HostA and HostB
C33_Witness ==
    /\ gw.collected /\ gw.filter # ""
    /\ Len(gw.routes) = 2
    /\ ~RouteQualifies(gw.routes[1]) /\ RouteQualifies(gw.routes[2])
    /\ \A i \in 1..Len(gw.routes[2].ParentRefs) :
          gw.routes[2].ParentRefs[i].Namespace = Nil
    /\ gw.hostnames = <<HostA, HostB>>

-----------------------------------------------------------------------------
(* Access policy target resolution *)

\* GetTargetRefs: targetRef first, then targetRefs in order
Declared == apc.targetRef \o apc.targetRefs

RefNamespace(ref) ==
    IF ref.namespace = Nil \/ ref.namespace = Ptr("") THEN PolicyNamespace
    ELSE ref.namespace[1]

TargetPresent(ref) ==
    [kind |-> ref.kind, namespace |-> RefNamespace(ref), name |-> ref.name] \in apc.objects

\* some ReferenceGrant in the target's namespace has a from entry for access
\* policies of the policy's namespace and a to entry for the target's kind
Permitted(ref) ==
    \E g \in 1..Len(apc.grants) :
        /\ apc.grants[g].namespace = RefNamespace(ref)
        /\ GrantFrom(OperatorGroup, "CloudflareAccessPolicy", PolicyNamespace)
              \in {apc.grants[g].from[f] : f \in 1..Len(apc.grants[g].from)}
        /\ GrantTo(GatewayGroup, ref.kind)
              \in {apc.grants[g].to[t] : t \in 1..Len(apc.grants[g].to)}

Entries == {i \in 1..Len(apc.resolvedTargets) : i <= Len(Declared)}

\* C12: a target is marked Resolved only if it exists and is either in the
\* policy's namespace or permitted by a ReferenceGrant of its namespace; when
\* the reads of the cluster succeed the converse holds too, and a target is
\* Resolved exactly when it carries no error.
C12_ResolvedIffPermitted ==
    apc.built =>
      \A i \in Entries :
        LET info == apc.resolvedTargets[i]
            ref == Declared[i]
            ok == /\ TargetPresent(ref)
                  /\ RefNamespace(ref) = PolicyNamespace \/ Permitted(ref)
        IN  /\ info.Resolved => ok
            /\ apc.fail = "none" => (info.Resolved <=> ok)
            /\ info.Resolved <=> info.Error = ""

C12_Witness ==
    /\ apc.built /\ apc.fail = "none"
    /\ \E i, j \in Entries :
         /\ apc.resolvedTargets[i].Resolved
         /\ apc.resolvedTargets[i].Namespace = OtherNamespace
         /\ apc.resolvedTargets[j].Error = "not permitted by ReferenceGrant"
         /\ apc.resolvedTargets[j].Namespace = OtherNamespace

\* C13: the resolution yields one TargetInfo per declared reference, in the
\* order targetRef, targetRefs[0], targetRefs[1], ...; each entry is what
\* resolving that reference alone gives, whatever happened to the others.
C13_OnePerReference ==
    apc.built =>
      /\ Len(apc.resolvedTargets) = Len(Declared)
      /\ \A i \in Entries :
           /\ apc.resolvedTargets[i].Kind = Declared[i].kind
           /\ apc.resolvedTargets[i].Name = Declared[i].name
           /\ apc.resolvedTargets[i].Namespace = RefNamespace(Declared[i])
           /\ apc.resolvedTargets[i] =
                 resolveTarget(Declared[i], PolicyNamespace, apc.objects, apc.grants, apc.fail)

C13_Witness ==
    /\ apc.built
    /\ apc.targetRef # Nil
    /\ Len(apc.resolvedTargets) = 3
    /\ apc.resolvedTargets[1].Error # ""
    /\ apc.resolvedTargets[2].Resolved
    /\ apc.resolvedTargets[3].Error # ""

-----------------------------------------------------------------------------
(* HTTPRoute status *)

Foreign(parents) ==
    {i \in 1..Len(parents) : parents[i].ControllerName # GatewayControllerName}

\* C14: a status write of the reconciler keeps every RouteParentStatus entry
\* stamped by another controller, unchanged.
C14_ForeignEntriesPreserved ==
    [][hr'.last \in {"reconciled", "readfailed"} =>
         \A i \in Foreign(hr.parents) :
             \E j \in Foreign(hr'.parents) : hr'.parents[j] = hr.parents[i]]_vars

\* the namespaces a listener admits routes from
Allows(listener, routeNamespace, gatewayNamespace) ==
    LET ns == listener.allowedRoutes[1].namespaces[1]
    IN  CASE ns.from = Ptr("All") -> TRUE
          [] ns.from = Ptr("Same") -> routeNamespace = gatewayNamespace
          [] ns.from = Ptr("Selector") -> routeNamespace \in ns.selected

\* what the parentRef must meet to be accepted
Valid(ref) ==
    /\ hr.gateway # Nil
    /\ hr.gateway[1].name = ref.name
    /\ hr.gateway[1].namespace =
          (IF ref.namespace = Nil THEN RouteNamespace ELSE ref.namespace[1])
    /\ hr.gateway[1].className \in DOMAIN GatewayClasses
    /\ GatewayClasses[hr.gateway[1].className] = GatewayControllerName
    /\ hr.gateway[1].tunnelRef
    /\ ref.sectionName # Nil =>
          \E k \in 1..Len(hr.gateway[1].listeners) :
              /\ hr.gateway[1].listeners[k].name = ref.sectionName[1]
              /\ Allows(hr.gateway[1].listeners[k], RouteNamespace, hr.gateway[1].namespace)

\* C15: after a reconciliation whose reads succeeded, the Accepted condition
\* stamped for each parentRef is True exactly when the parent is valid, and
\* is False with a reason otherwise.
C15_AcceptedIffValid ==
    hr.last = "reconciled" =>
      /\ Len(hr.parents) = Len(hr.parentRefs)
      /\ \A i \in 1..Len(hr.parentRefs) :
           LET accepted == hr.parents[i].Conditions[1]
           IN  /\ accepted.Type = "Accepted"
               /\ accepted.Status = "True" <=> Valid(hr.parentRefs[i])
               /\ accepted.Status = "False" <=> ~Valid(hr.parentRefs[i])
               /\ accepted.Status = "False" => accepted.Reason # ""

-----------------------------------------------------------------------------
(* CredentialCache *)

\* caller t invokes createFn in this step
Builds(t) == cc.th[t].pc = "create" /\ cc'.th[t].pc # "create"

\* a present, unexpired entry for the secret of caller t
ValidEntryFor(t) ==
    /\ cacheKey(cc.th[t].secret) \in DOMAIN cc.entries
    /\ cc.now <= cc.entries[cacheKey(cc.th[t].secret)].expiresAt

\* C16: GetOrCreate invokes the build function only if, at that moment, the
\* cache holds no valid entry for the key, concurrent callers included.
C16_BuildOnlyOnMiss ==
    [][\A t \in Callers : Builds(t) => ~ValidEntryFor(t)]_vars

\* the TTL the cache was asked for, 30 seconds when that is not positive
EffectiveTTL == IF cc.requested <= 0 THEN 30 ELSE cc.requested

GetReturned(t) == cc.th[t].pc = "done" /\ cc.th[t].op = "Get"

\* C17: every entry expires one TTL after it was stored (30 s when the cache
\* was constructed with ttl <= 0); a client returned by Get was built for
\* the very secret (UID and resourceVersion) Get was called with and was
\* stored at most one TTL before; an entry found older than that yields nil.
C17_GetOnlyFresh ==
    /\ \A k \in DOMAIN cc.entries :
          cc.entries[k].expiresAt = cc.entries[k].storedAt + EffectiveTTL
    /\ \A t \in Callers :
          GetReturned(t) =>
            /\ cc.th[t].client # NoClient =>
                  /\ cc.th[t].client = cc.th[t].entry.client
                  /\ cc.th[t].client.for = cc.th[t].secret
                  /\ cc.th[t].at - cc.th[t].entry.storedAt <= EffectiveTTL
            /\ cc.th[t].at - cc.th[t].entry.storedAt > EffectiveTTL =>
                  cc.th[t].client = NoClient

C17_Witness ==
    \E t, u \in Callers :
        /\ GetReturned(t) /\ cc.th[t].client # NoClient
        /\ GetReturned(u) /\ cc.th[u].client = NoClient
        /\ cc.th[u].entry # NoEntry
        /\ cc.requested <= 0
        /\ cc.th[t].secret.ResourceVersion = <<2>>

-----------------------------------------------------------------------------
(* CloudflareTunnel: adoption and deletion *)

ReconcileStep == ct'.last \notin {"env", "none"}

\* C18: a reconciliation that finds a tunnel with the desired name in the
\* account creates no tunnel, and when it completes the status holds the id
\* of the oldest such tunnel; no reconciliation ever creates a second tunnel
\* with the name.
C18_AdoptsExisting ==
    [][ReconcileStep =>
         /\ TunnelsNamed(ct.ext, DesiredName) # {} => ct'.ext \subseteq ct.ext
         /\ (ct'.last = "ready" /\ TunnelsNamed(ct.ext, DesiredName) # {}) =>
               ct'.cr.tunnelId = Oldest(TunnelsNamed(ct.ext, DesiredName)).id
         /\ Cardinality(TunnelsNamed(ct'.ext, DesiredName)) <=
               IF TunnelsNamed(ct.ext, DesiredName) = {} THEN 1
               ELSE Cardinality(TunnelsNamed(ct.ext, DesiredName))]_vars

C18_Witness ==
    /\ ct.last = "ready"
    /\ ct.cr.tunnelId # 0
    /\ \E t \in ct.ext : t.id = ct.cr.tunnelId /\ t.by = "foreign"
    /\ Cardinality(ct.ext) = 1

\* the step in which the CloudflareTunnel disappears from the cluster
CRGone == ct.cr.exists /\ ~ct'.cr.exists

C34_FreshEntrySurvives ==
    [][\A k \in DOMAIN cc.entries :
          cc.now <= cc.entries[k].expiresAt => k \in DOMAIN cc'.entries]_vars

-----------------------------------------------------------------------------
(* TunnelConfig *)

LastRule == tc.Ingress[Len(tc.Ingress)]

\* C20: the ingress list is never empty and its last rule has neither
\* hostname nor path, so Validate fails neither for an empty list nor for a
\* missing catch-all; until SetCatchAll replaces it, the catch-all serves the
\* tunnel's fallback target, and http_status:404 when there is none.
C20_LastRuleIsCatchAll ==
    /\ Len(tc.Ingress) > 0
    /\ LastRule.Hostname = "" /\ LastRule.Path = ""
    /\ Validate(tc) \notin {"at least one ingress rule is required",
                             "last ingress rule must be a catch-all (no hostname or path)"}
    /\ ~tc.replaced =>
          LastRule.Service = (IF tc.fallback = "" THEN "http_status:404" ELSE tc.fallback)

C20_Witness ==
    /\ Len(tc.Ingress) = 3
    /\ tc.Ingress[1].Hostname = "" /\ tc.Ingress[1].Path = ""
    /\ tc.Ingress[2].Hostname # ""
    /\ ~tc.replaced /\ tc.fallback = ""
    /\ LastRule.Service = "http_status:404"

====
